---- MODULE Spec2Model ----
(***************************************************************************)
(* Credential lifecycle of the Terraform Cloud secrets engine:             *)
(* configuration store, cached API client, root-token rotation, roles,     *)
(* credential issuance and lease revocation.  The remote platform is       *)
(* modelled as the list of tokens it has minted, each live or not.         *)
(***************************************************************************)
EXTENDS Integers, Sequences, FiniteSets, TLC

\* ---------------------------------------------------------------- bounds
\* Number of tokens the remote platform mints in one run (the first one is
\* the operator's management token).
MaxTokens == 3
\* Number of leases the host tracks in one run.
MaxLeases == 2
\* Largest ttl / max_ttl value (seconds) a role request carries.
MaxTTL == 2

\* ------------------------------------------------------------ vocabulary
\* A request field that was not supplied (GetOk returns ok = false).
Absent == "<absent>"
\* The same for a field of integer type (durations are never negative).
AbsentInt == 0 - 1

organizationCredentialType == "organization"
teamLegacyCredentialType == "team_legacy"
teamCredentialType == "team"
userCredentialType == "user"

credentialType_Values ==
    {userCredentialType, organizationCredentialType,
     teamLegacyCredentialType, teamCredentialType}

\* Kind of a role, and of a lease, that creates a team of its own per read.
DynamicTeamTokenType == "dynamic_team"

\* Entities that exist on the remote platform.
Orgs == {"o1"}
Teams == {"t1"}
Users == {"u1"}

\* Identifier and secret value of the n-th token the platform mints; an
\* identifier ("at-...") is never equal to a secret value or an entity id.
AtID == <<"at1", "at2", "at3", "at4", "at5", "at6", "at7", "at8">>
TokVal == <<"tok1", "tok2", "tok3", "tok4", "tok5", "tok6", "tok7", "tok8">>
\* Identifier of the team the platform creates together with the n-th token.
DtID == <<"team1", "team2", "team3", "team4", "team5", "team6", "team7", "team8">>

VARIABLES
    config,   \* storage entry "config": a tfConfig, or NoConfig
    client,   \* tfBackend.client: the cached API client, or NoClient
    roles,    \* storage entries "role/<name>"
    leases,   \* secrets the host tracks, in order of issue
    tokens,   \* remote platform: every token minted so far
    job,      \* host rotation manager: a rotation job is registered
    last,     \* outcome of the last request
    lock,     \* tfBackend.lock: the writer and the readers holding it
    pc,       \* position of each caller inside getClient
    builds,   \* clients built since the cache was last invalidated
    inflight  \* what each role request in progress has read and minted

vars ==
    <<config, client, roles, leases, tokens, job, last, lock, pc, builds,
      inflight>>

NoConfig == [present |-> FALSE]
NoClient == [built |-> FALSE]
NoRole == [present |-> FALSE]

\* ------------------------------------------------------- remote platform
\* The platform keeps one organization token per organization and one
\* legacy team token per team: minting a new one invalidates the previous.
SingletonKinds == {organizationCredentialType, teamLegacyCredentialType}

EntityExists(kind, ent) ==
    CASE kind = organizationCredentialType -> ent \in Orgs
      [] kind \in {teamLegacyCredentialType, teamCredentialType} -> ent \in Teams
      [] kind = userCredentialType -> ent \in Users
      [] OTHER -> FALSE

\* A request is accepted when the token the client was built from is the
\* secret value of a live token.
AuthOK(ts, tok) ==
    \E n \in DOMAIN ts : ts[n].live /\ TokVal[n] = tok

Supersede(ts, kind, ent) ==
    [n \in DOMAIN ts |->
        IF kind \in SingletonKinds /\ ts[n].kind = kind /\ ts[n].ent = ent
        THEN [ts[n] EXCEPT !.live = FALSE]
        ELSE ts[n]]

\* OrganizationTokens.Create, TeamTokens.Create, TeamTokens.CreateWithOptions
\* and UserTokens.Create: the token list after a successful call.
RemoteCreate(ts, kind, ent) ==
    Append(Supersede(ts, kind, ent), [kind |-> kind, ent |-> ent, live |-> TRUE])

CanCreate(ts, tok, kind, ent) ==
    /\ Len(ts) < MaxTokens
    /\ AuthOK(ts, tok)
    /\ EntityExists(kind, ent)

\* Index of the live token with identifier id, 0 when there is none.
LiveIndexOfID(ts, id) ==
    IF \E n \in DOMAIN ts : ts[n].live /\ AtID[n] = id
    THEN CHOOSE n \in DOMAIN ts : ts[n].live /\ AtID[n] = id
    ELSE 0

\* TeamTokens.DeleteByID and UserTokens.Delete: both address a token by its
\* identifier; not-found when no live token has it.
CanDeleteByID(ts, tok, id) == AuthOK(ts, tok) /\ LiveIndexOfID(ts, id) # 0

RemoteDeleteByID(ts, id) ==
    [n \in DOMAIN ts |->
        IF AtID[n] = id THEN [ts[n] EXCEPT !.live = FALSE] ELSE ts[n]]

\* OrganizationTokens.Delete and TeamTokens.Delete: address the singleton
\* token of an organization or team; not-found when it has none.
HasSingleton(ts, kind, ent) ==
    \E n \in DOMAIN ts : ts[n].live /\ ts[n].kind = kind /\ ts[n].ent = ent

CanDeleteSingleton(ts, tok, kind, ent) ==
    AuthOK(ts, tok) /\ HasSingleton(ts, kind, ent)

RemoteDeleteSingleton(ts, kind, ent) ==
    [n \in DOMAIN ts |->
        IF ts[n].kind = kind /\ ts[n].ent = ent
        THEN [ts[n] EXCEPT !.live = FALSE]
        ELSE ts[n]]

\* Teams.Create followed by the team's token: the platform creates a team
\* in the organization and the team's token; the new team is DtID[n] for
\* the token's index n.
CanCreateTeam(ts, tok, org) ==
    Len(ts) < MaxTokens /\ AuthOK(ts, tok) /\ org \in Orgs

RemoteCreateTeam(ts) ==
    Append(ts, [kind |-> DynamicTeamTokenType, ent |-> DtID[Len(ts) + 1],
                live |-> TRUE])

\* Teams.Delete: deleting a team deletes its tokens; not-found when the
\* team does not exist (any more).
TeamExists(ts, teamID) ==
    \E n \in DOMAIN ts :
        ts[n].live /\ ts[n].kind = DynamicTeamTokenType /\ ts[n].ent = teamID

CanDeleteTeam(ts, tok, teamID) == AuthOK(ts, tok) /\ TeamExists(ts, teamID)

RemoteDeleteTeam(ts, teamID) ==
    [n \in DOMAIN ts |->
        IF ts[n].kind = DynamicTeamTokenType /\ ts[n].ent = teamID
        THEN [ts[n] EXCEPT !.live = FALSE]
        ELSE ts[n]]

\* Whether the token with secret value tok is live on the platform.
ValueLive(ts, tok) == AuthOK(ts, tok)

\* ------------------------------------------------- outcome of a request
\* op: the operation; name: the role it names; err: "" or the error the
\* caller sees; token: the token value in the response; oldTok: the
\* management token in storage when the operation began; minted: index of
\* the tokens it minted remotely; killed: indices of the tokens that were
\* live before it and are no longer; calls: remote create/delete calls made;
\* lease: index of the lease it issued or revoked; entry: the role entry a
\* role write arrived at from the stored entry and the request.
Outcome(op, name, err, token, oldTok, minted, killed, calls, lease, entry) ==
    [op |-> op, name |-> name, err |-> err, token |-> token,
     oldTok |-> oldTok, minted |-> minted, killed |-> killed,
     calls |-> calls, lease |-> lease, entry |-> entry]

Killed(before, after) ==
    {n \in DOMAIN before : before[n].live /\ ~after[n].live}

Minted(before, after) ==
    {n \in DOMAIN after : n > Len(before)}

\* ------------------------------------------------------- cached client
emptyConfig ==
    [present |-> TRUE, token |-> "", tokenType |-> "", id |-> "",
     tokenID |-> "", oldToken |-> "", address |-> "", basePath |-> "",
     rotationPeriod |-> 0]

\* The API library refuses to build a client without a token; a failed
\* build leaves no client.
newClient(cfg) ==
    IF cfg.token = "" THEN NoClient
    ELSE [built |-> TRUE, token |-> cfg.token, address |-> cfg.address,
          basePath |-> cfg.basePath]

\* The client a handler obtains, which is also the cache afterwards;
\* NoClient when building it failed.
getClient ==
    IF client.built THEN client
    ELSE newClient(IF config.present THEN config ELSE emptyConfig)

reset == NoClient

\* ------------------------------------------------------ root rotation
RotatableTypes == {"organization", "team", "user"}

\* The remote kind of the token a rotation mints: organization tokens are
\* singletons; team tokens are created with a description (multi-token).
RotationMintKind(tokenType) ==
    CASE tokenType = "organization" -> organizationCredentialType
      [] tokenType = "team" -> teamCredentialType
      [] OTHER -> userCredentialType

putConfigToStorage(cfg) == cfg

ShouldRegisterRotationJob(cfg) == cfg.rotationPeriod # 0
ShouldDeregisterRotationJob(cfg) == cfg.rotationPeriod = 0

\* Result of a handler that touches config, client and the remote tokens.
Res(cfg, cl, ts, err, calls) ==
    [config |-> cfg, client |-> cl, tokens |-> ts, err |-> err, calls |-> calls]

\* The rotation job after a config write: the rotation manager call comes
\* first and is not undone by a later failure.
JobAfterWrite(op, req, fp) ==
    LET base == IF config.present THEN config ELSE emptyConfig
        period == IF req.rotation_period # AbsentInt
                  THEN req.rotation_period ELSE base.rotationPeriod
    IN
    IF (~config.present /\ op = "update") \/ fp = 1 THEN job
    ELSE period # 0

\* config/rotate.  fp names the step that fails: 1 the remote create,
\* 2 the storage put, 3 the remote delete of the old token.
rotateRootToken(fp) ==
    LET cl == getClient IN
    IF ~cl.built
    THEN Res(config, cl, tokens, "client_error", 0)
    ELSE IF ~config.present
    THEN Res(config, cl, tokens, "panic", 0)
    ELSE
    LET oldTokenID == config.tokenID
        kind == RotationMintKind(config.tokenType)
    IN
    IF config.tokenType = "" \/ config.id = "" \/ oldTokenID = ""
    THEN Res(config, cl, tokens, "config_error", 0)
    ELSE IF config.tokenType \notin RotatableTypes
    THEN Res(config, cl, tokens, "unsupported_token_type", 0)
    ELSE IF fp = 1 \/ ~CanCreate(tokens, cl.token, kind, config.id)
    THEN Res(config, cl, tokens, "remote_create", 1)
    ELSE
    LET ts1 == RemoteCreate(tokens, kind, config.id)
        n == Len(ts1)
        cfg1 == [config EXCEPT !.token = TokVal[n], !.tokenID = AtID[n]]
    IN
    IF fp = 2
    THEN Res(config, cl, ts1, "save_after_rotation", 1)
    ELSE IF cfg1.oldToken = "delete" /\ cfg1.tokenType \in {"team", "user"}
    THEN IF fp = 3 \/ ~CanDeleteByID(ts1, cl.token, oldTokenID)
         THEN Res(putConfigToStorage(cfg1), cl, ts1, "delete_old", 2)
         ELSE Res(putConfigToStorage(cfg1), reset,
                  RemoteDeleteByID(ts1, oldTokenID), "", 2)
    ELSE Res(putConfigToStorage(cfg1), reset, ts1, "", 1)

\* A variant that deletes the old token for every kind of token.
RotateRootTokenDeleteAnyKind(ts, tok, tokenType, OldID, oldToken, fpCreate, fpDelete) ==
    LET kind == RotationMintKind(tokenType)
        R(err, t, newToken, newID, calls) ==
            [err |-> err, tokens |-> t, token |-> newToken, id |-> newID,
             calls |-> calls]
    IN
    IF tokenType = "" \/ OldID = ""
    THEN R("config_error", ts, "", "", 0)
    ELSE IF tokenType \notin RotatableTypes
    THEN R("unsupported_token_type", ts, "", "", 0)
    ELSE IF fpCreate \/ ~CanCreate(ts, tok, kind, OldID)
    THEN R("remote_create", ts, "", "", 1)
    ELSE
    LET ts1 == RemoteCreate(ts, kind, OldID)
        n == Len(ts1)
    IN
    IF oldToken = "delete"
    THEN IF fpDelete \/ ~CanDeleteByID(ts1, tok, OldID)
         THEN R("delete_old", ts1, "", "", 2)
         ELSE R("", RemoteDeleteByID(ts1, OldID), TokVal[n], AtID[n], 2)
    ELSE R("", ts1, TokVal[n], AtID[n], 1)

\* client.RotateRootToken(tokenType, OldID, oldToken) of the client built
\* from token tok: mints, then deletes the token addressed by OldID.
\* fpCreate / fpDelete tell whether the remote call fails.
RotateRootToken(ts, tok, tokenType, OldID, oldToken, fpCreate, fpDelete) ==
    LET kind == RotationMintKind(tokenType)
        R(err, t, newToken, newID, calls) ==
            [err |-> err, tokens |-> t, token |-> newToken, id |-> newID,
             calls |-> calls]
    IN
    IF tokenType = "" \/ OldID = ""
    THEN R("config_error", ts, "", "", 0)
    ELSE IF tokenType \notin RotatableTypes
    THEN R("unsupported_token_type", ts, "", "", 0)
    ELSE IF fpCreate \/ ~CanCreate(ts, tok, kind, OldID)
    THEN R("remote_create", ts, "", "", 1)
    ELSE
    LET ts1 == RemoteCreate(ts, kind, OldID)
        n == Len(ts1)
    IN
    IF oldToken = "delete" /\ tokenType \in {"team", "user"}
    THEN IF fpDelete \/ ~CanDeleteByID(ts1, tok, OldID)
         THEN R("delete_old", ts1, "", "", 2)
         ELSE R("", RemoteDeleteByID(ts1, OldID), TokVal[n], AtID[n], 2)
    ELSE R("", ts1, TokVal[n], AtID[n], 1)

\* Host-scheduled rotation (RotateCredential).  fp: 1 remote create,
\* 2 remote delete, 3 storage put.  An error response of rotateRoot is
\* dropped by the RotateCredential wrapper, which returns only the error.
\* crash tells whether a panic takes the process, and its client cache,
\* down.
rotateRoot(fp, crash) ==
    IF ~config.present
    THEN Res(config, IF crash THEN NoClient ELSE client, tokens, "panic", 0)
    ELSE IF config.token = ""
    THEN Res(config, client, tokens, "", 0)
    ELSE IF config.tokenType = "" \/ config.id = ""
    THEN Res(config, client, tokens, "", 0)
    ELSE
    LET cl == getClient IN
    IF ~cl.built
    THEN Res(config, cl, tokens, "client_error", 0)
    ELSE
    LET r == RotateRootToken(tokens, cl.token, config.tokenType, config.id,
                             config.oldToken, fp = 1, fp = 2)
    IN
    IF r.err # ""
    THEN Res(config, cl, r.tokens, r.err, r.calls)
    ELSE IF fp = 3
    THEN Res(config, cl, r.tokens, "storage", r.calls)
    ELSE Res([config EXCEPT !.token = r.token, !.id = r.id], reset,
             r.tokens, "", r.calls)

\* ------------------------------------------------------- config write
defaultAddress == "https://app.terraform.io"
defaultBasePath == "/api/v2/"

\* A variant that falls back to the schema default on update as well.
FieldOrDefault(v, op, default, old) ==
    IF v # Absent THEN v ELSE default

\* A field of a create/update request: the supplied value, else the schema
\* default on create, else the stored value.
FieldOr(v, op, default, old) ==
    IF v # Absent THEN v ELSE IF op = "create" THEN default ELSE old

\* A variant that reports the token it was given as the rotated one.
rotateOnWriteKeepsToken(ts, cfg, fpCreate, fpDelete) ==
    IF ~newClient(cfg).built
    THEN [err |-> "client_error", tokens |-> ts, token |-> "", id |-> "",
          calls |-> 0]
    ELSE [err |-> "", tokens |-> ts, token |-> cfg.token, id |-> cfg.id,
          calls |-> 0]

\* rotateOnWrite: a fresh client built from the configuration just written.
rotateOnWrite(ts, cfg, fpCreate, fpDelete) ==
    IF ~newClient(cfg).built
    THEN [err |-> "client_error", tokens |-> ts, token |-> "", id |-> "",
          calls |-> 0]
    ELSE RotateRootToken(ts, newClient(cfg).token, cfg.tokenType, cfg.id,
                         cfg.oldToken, fpCreate, fpDelete)

\* fp: 1 the rotation manager call, 2 the storage put, 3 the remote create
\* and 4 the remote delete of the immediate rotation, 5 the second put.
pathConfigWrite(op, req, fp) ==
    IF ~config.present /\ op = "update"
    THEN Res(config, client, tokens, "config_not_found", 0)
    ELSE
    LET base == IF config.present THEN config ELSE emptyConfig
        c1 == [base EXCEPT
                 !.address = FieldOr(req.address, op, defaultAddress, base.address),
                 !.basePath =
                     FieldOr(req.base_path, op, defaultBasePath, base.basePath),
                 !.token = FieldOr(req.token, op, "", base.token),
                 !.rotationPeriod =
                     IF req.rotation_period # AbsentInt
                     THEN req.rotation_period ELSE base.rotationPeriod]
        c2 == [c1 EXCEPT
                 !.tokenType = FieldOr(req.token_type, op, "", c1.tokenType),
                 !.id = FieldOr(req.id, op, "", c1.id),
                 !.oldToken = FieldOr(req.old_token, op, "delete", c1.oldToken)]
        immediately ==
            IF req.rotate_token_immediately = Absent
            THEN TRUE ELSE req.rotate_token_immediately = "true"
    IN
    IF ShouldDeregisterRotationJob(c1) /\ fp = 1
    THEN Res(config, client, tokens, "deregister_failed", 0)
    ELSE IF ~ShouldDeregisterRotationJob(c1) /\ ShouldRegisterRotationJob(c1)
            /\ fp = 1
    THEN Res(config, client, tokens, "register_failed", 0)
    ELSE IF ShouldDeregisterRotationJob(c1)
    THEN IF fp = 2
         THEN Res(config, client, tokens, "storage", 0)
         ELSE Res(putConfigToStorage(c1), reset, tokens, "", 0)
    ELSE IF c2.tokenType # "" /\ c2.tokenType \notin RotatableTypes
    THEN Res(config, client, tokens, "invalid_token_type", 0)
    ELSE IF c2.tokenType # "" /\ c2.id = ""
    THEN Res(config, client, tokens, "id_required", 0)
    ELSE IF req.old_token # Absent /\ c2.oldToken \notin {"delete", "keep"}
    THEN Res(config, client, tokens, "invalid_old_token", 0)
    ELSE IF fp = 2
    THEN Res(config, client, tokens, "storage", 0)
    ELSE IF ~immediately
    THEN Res(putConfigToStorage(c2), reset, tokens, "", 0)
    ELSE
    LET r == rotateOnWrite(tokens, c2, fp = 3, fp = 4) IN
    IF r.err # ""
    THEN Res(putConfigToStorage(c2), client, r.tokens, r.err, r.calls)
    ELSE IF fp = 5
    THEN Res(putConfigToStorage(c2), client, r.tokens,
             "save_after_immediate_rotation", r.calls)
    ELSE Res(putConfigToStorage([c2 EXCEPT !.token = r.token, !.id = r.id]),
             reset, r.tokens, "", r.calls)

\* A variant that fills the id key from the token field.
pathConfigReadTokenAsID(cfg) ==
    IF ~cfg.present THEN [present |-> FALSE]
    ELSE LET policy == ShouldRegisterRotationJob(cfg) IN
         [present |-> TRUE,
          address |-> cfg.address,
          base_path |-> cfg.basePath,
          rotation_period |-> IF policy THEN cfg.rotationPeriod ELSE AbsentInt,
          token_type |-> IF policy THEN cfg.tokenType ELSE Absent,
          id |-> IF policy THEN cfg.token ELSE Absent,
          old_token |-> IF policy THEN cfg.oldToken ELSE Absent]

\* pathConfigRead of the stored configuration cfg: the response data; a
\* key the handler leaves out is Absent.
pathConfigRead(cfg) ==
    IF ~cfg.present THEN [present |-> FALSE]
    ELSE LET policy == ShouldRegisterRotationJob(cfg) IN
         [present |-> TRUE,
          address |-> cfg.address,
          base_path |-> cfg.basePath,
          rotation_period |-> IF policy THEN cfg.rotationPeriod ELSE AbsentInt,
          token_type |-> IF policy THEN cfg.tokenType ELSE Absent,
          id |-> IF policy THEN cfg.id ELSE Absent,
          old_token |-> IF policy THEN cfg.oldToken ELSE Absent]

\* A variant that leaves the cached client in place.
pathConfigDeleteKeepClient(fp) ==
    IF fp = 1
    THEN Res(config, client, tokens, "storage", 0)
    ELSE Res(NoConfig, client, tokens, "", 0)

\* fp = 1: the storage delete fails.
pathConfigDelete(fp) ==
    IF fp = 1
    THEN Res(config, client, tokens, "storage", 0)
    ELSE Res(NoConfig, reset, tokens, "", 0)

\* ---------------------------------------------------------- role store
\* The zero terraformRoleEntry.
emptyRole ==
    [present |-> TRUE, name |-> "", organization |-> "", teamID |-> "",
     userID |-> "", description |-> "", ttl |-> 0, maxTTL |-> 0,
     credentialType |-> "", token |-> "", tokenID |-> ""]

getRole(name) == roles[name]

\* A variant that gives the lease periods their defaults when the request
\* leaves them out.
MergeRoleDefaultPeriods(name, req) ==
    LET e0 == [(IF getRole(name).present THEN getRole(name) ELSE emptyRole)
                  EXCEPT !.name = name]
        e1 == IF req.credential_type # Absent
              THEN [e0 EXCEPT !.credentialType = req.credential_type] ELSE e0
        e2 == IF req.organization # Absent
              THEN [e1 EXCEPT !.organization = req.organization,
                              !.credentialType =
                                  IF e1.credentialType = ""
                                  THEN organizationCredentialType
                                  ELSE e1.credentialType]
              ELSE e1
        e3 == IF req.user_id # Absent
              THEN [e2 EXCEPT !.userID = req.user_id,
                              !.credentialType =
                                  IF e2.credentialType = ""
                                  THEN userCredentialType
                                  ELSE e2.credentialType]
              ELSE e2
        e4 == IF req.team_id # Absent
              THEN [e3 EXCEPT !.teamID = req.team_id,
                              !.credentialType =
                                  IF e3.credentialType
                                         \in {"", teamLegacyCredentialType}
                                  THEN teamLegacyCredentialType
                                  ELSE e3.credentialType]
              ELSE e3
        e5 == IF req.description # Absent
              THEN [e4 EXCEPT !.description = req.description] ELSE e4
        e6 == [e5 EXCEPT !.ttl = IF req.ttl # AbsentInt THEN req.ttl ELSE 0]
    IN
    [e6 EXCEPT !.maxTTL = IF req.max_ttl # AbsentInt THEN req.max_ttl ELSE 0]

\* The entry a role write arrives at from the stored entry and the request
\* fields, in the order the handler applies them.
MergeRole(name, req) ==
    LET e0 == [(IF getRole(name).present THEN getRole(name) ELSE emptyRole)
                  EXCEPT !.name = name]
        e1 == IF req.credential_type # Absent
              THEN [e0 EXCEPT !.credentialType = req.credential_type] ELSE e0
        e2 == IF req.organization # Absent
              THEN [e1 EXCEPT !.organization = req.organization,
                              !.credentialType =
                                  IF e1.credentialType = ""
                                  THEN organizationCredentialType
                                  ELSE e1.credentialType]
              ELSE e1
        e3 == IF req.user_id # Absent
              THEN [e2 EXCEPT !.userID = req.user_id,
                              !.credentialType =
                                  IF e2.credentialType = ""
                                  THEN userCredentialType
                                  ELSE e2.credentialType]
              ELSE e2
        e4 == IF req.team_id # Absent
              THEN [e3 EXCEPT !.teamID = req.team_id,
                              !.credentialType =
                                  IF e3.credentialType
                                         \in {"", teamLegacyCredentialType}
                                  THEN teamLegacyCredentialType
                                  ELSE e3.credentialType]
              ELSE e3
        e5 == IF req.description # Absent
              THEN [e4 EXCEPT !.description = req.description] ELSE e4
        e6 == IF req.ttl # AbsentInt THEN [e5 EXCEPT !.ttl = req.ttl] ELSE e5
    IN
    IF req.max_ttl # AbsentInt THEN [e6 EXCEPT !.maxTTL = req.max_ttl] ELSE e6

UnrecognizedCredentialType(req) ==
    req.credential_type # Absent /\ req.credential_type \notin credentialType_Values

\* A variant that overlooks the team id.
ConflictingIdentifiersOrgOnly(e) ==
    e.userID # "" /\ e.organization # ""

ConflictingIdentifiers(e) ==
    e.userID # "" /\ (e.organization # "" \/ e.teamID # "")

NoIdentifier(e) ==
    e.userID = "" /\ e.organization = "" /\ e.teamID = ""

\* A variant that is off by one second.
TTLExceedsMaxTTLOffByOne(e) == e.maxTTL # 0 /\ e.ttl > e.maxTTL + 1

TTLExceedsMaxTTL(e) == e.maxTTL # 0 /\ e.ttl > e.maxTTL

LegacyTeamCosmetics(e) ==
    /\ e.credentialType = teamLegacyCredentialType
    /\ (e.description # "" \/ e.ttl # 0 \/ e.maxTTL # 0)

\* The validation error of a role write, "" when the entry passes.
ValidateRole(e, req) ==
    IF UnrecognizedCredentialType(req) THEN "unrecognized_credential_type"
    ELSE IF ConflictingIdentifiers(e) THEN "conflicting_identifiers"
    ELSE IF NoIdentifier(e) THEN "missing_identifier"
    ELSE IF TTLExceedsMaxTTL(e) THEN "ttl_exceeds_max_ttl"
    ELSE IF LegacyTeamCosmetics(e) THEN "legacy_team_cosmetics"
    ELSE ""

ValidationErrors ==
    {"unrecognized_credential_type", "conflicting_identifiers",
     "missing_identifier", "ttl_exceeds_max_ttl", "legacy_team_cosmetics"}

isOrgToken(organization, team) == organization # "" /\ team = ""
isTeamToken(team) == team # ""

\* Whether creds reads of a team role mint a token per read: the role was
\* declared with credential type "team".
MultipleTeamTokens(e) == e.credentialType = teamCredentialType

\* The remote kind and entity of the token createToken mints for an entry.
TokenTarget(e) ==
    IF isOrgToken(e.organization, e.teamID)
    THEN [kind |-> organizationCredentialType, ent |-> e.organization]
    ELSE IF isTeamToken(e.teamID)
    THEN [kind |-> IF MultipleTeamTokens(e)
                   THEN teamCredentialType ELSE teamLegacyCredentialType,
          ent |-> e.teamID]
    ELSE [kind |-> userCredentialType, ent |-> e.userID]

\* Result of a handler of the role side.
RoleRes(rl, cl, ts, ls, err, token, calls, lease, entry) ==
    [roles |-> rl, client |-> cl, tokens |-> ts, leases |-> ls, err |-> err,
     token |-> token, calls |-> calls, lease |-> lease, entry |-> entry]

\* A variant that repeats a failed create call once.
createTokenRetriesOnce(ts, e, fpCreate) ==
    LET cl == getClient
        t == TokenTarget(e)
        R(err, t1, token, id, calls) ==
            [err |-> err, tokens |-> t1, client |-> cl, token |-> token,
             id |-> id, calls |-> calls]
    IN
    IF ~cl.built THEN R("client_error", ts, "", "", 0)
    ELSE IF t.kind # userCredentialType /\ ~EntityExists(t.kind, t.ent)
    THEN R("remote_read", ts, "", "", 0)
    ELSE IF fpCreate \/ ~CanCreate(ts, cl.token, t.kind, t.ent)
    THEN R("remote_create", ts, "", "", 2)
    ELSE LET ts1 == RemoteCreate(ts, t.kind, t.ent) IN
         R("", ts1, TokVal[Len(ts1)], AtID[Len(ts1)], 1)

\* createToken: fpCreate tells whether the remote call fails.
createToken(ts, e, fpCreate) ==
    LET cl == getClient
        t == TokenTarget(e)
        R(err, t1, token, id, calls) ==
            [err |-> err, tokens |-> t1, client |-> cl, token |-> token,
             id |-> id, calls |-> calls]
    IN
    IF ~cl.built THEN R("client_error", ts, "", "", 0)
    ELSE IF t.kind # userCredentialType /\ ~EntityExists(t.kind, t.ent)
    THEN R("remote_read", ts, "", "", 0)
    ELSE IF fpCreate \/ ~CanCreate(ts, cl.token, t.kind, t.ent)
    THEN R("remote_create", ts, "", "", 1)
    ELSE LET ts1 == RemoteCreate(ts, t.kind, t.ent) IN
         R("", ts1, TokVal[Len(ts1)], AtID[Len(ts1)], 1)

setRole(name, e) == [roles EXCEPT ![name] = e]

\* A variant that caches the token value without its identifier.
pathRolesWriteNoTokenID(name, req, fp) ==
    LET e == MergeRole(name, req)
        verr == ValidateRole(e, req)
    IN
    IF verr # ""
    THEN RoleRes(roles, client, tokens, leases, verr, "", 0, 0, e)
    ELSE IF e.credentialType \in
                {organizationCredentialType, teamLegacyCredentialType}
    THEN LET r == createToken(tokens, e, fp = 1)
             e1 == [e EXCEPT !.token = r.token]
         IN
         IF r.err # ""
         THEN RoleRes(roles, r.client, r.tokens, leases, r.err, "", r.calls, 0, e)
         ELSE IF fp = 2
         THEN RoleRes(roles, r.client, r.tokens, leases, "storage", "",
                      r.calls, 0, e)
         ELSE RoleRes(setRole(name, e1), r.client, r.tokens, leases, "", "",
                      r.calls, 0, e)
    ELSE IF fp = 2
    THEN RoleRes(roles, client, tokens, leases, "storage", "", 0, 0, e)
    ELSE RoleRes(setRole(name, e), client, tokens, leases, "", "", 0, 0, e)

\* fp: 1 the remote create fails, 2 the storage put fails.
pathRolesWrite(name, req, fp) ==
    LET e == MergeRole(name, req)
        verr == ValidateRole(e, req)
    IN
    IF verr # ""
    THEN RoleRes(roles, client, tokens, leases, verr, "", 0, 0, e)
    ELSE IF e.credentialType \in
                {organizationCredentialType, teamLegacyCredentialType}
    THEN LET r == createToken(tokens, e, fp = 1)
             e1 == [e EXCEPT !.token = r.token, !.tokenID = r.id]
         IN
         IF r.err # ""
         THEN RoleRes(roles, r.client, r.tokens, leases, r.err, "", r.calls, 0, e)
         ELSE IF fp = 2
         THEN RoleRes(roles, r.client, r.tokens, leases, "storage", "",
                      r.calls, 0, e)
         ELSE RoleRes(setRole(name, e1), r.client, r.tokens, leases, "", "",
                      r.calls, 0, e)
    ELSE IF fp = 2
    THEN RoleRes(roles, client, tokens, leases, "storage", "", 0, 0, e)
    ELSE RoleRes(setRole(name, e), client, tokens, leases, "", "", 0, 0, e)

\* The response of a request that returns no data.
NoData == [present |-> FALSE]

\* toResponseData: the fields of a role read response; a key the handler
\* leaves out is Absent.
toResponseData(r) ==
    LET ct1 == IF r.organization # ""
               THEN organizationCredentialType ELSE r.credentialType
    IN
    [present |-> TRUE,
     name |-> r.name,
     ttl |-> r.ttl,
     max_ttl |-> r.maxTTL,
     description |-> IF r.description # "" THEN r.description ELSE Absent,
     organization |-> IF r.organization # "" THEN r.organization ELSE Absent,
     team_id |-> IF r.teamID # "" THEN r.teamID ELSE Absent,
     user_id |-> IF r.userID # "" THEN r.userID ELSE Absent,
     credential_type |->
         IF r.userID # "" THEN userCredentialType
         ELSE IF r.teamID # ""
         THEN IF ct1 \in {"", teamLegacyCredentialType}
              THEN teamLegacyCredentialType ELSE teamCredentialType
         ELSE Absent]

\* pathRolesRead: the error and the response data.
pathRolesRead(name) ==
    IF ~getRole(name).present
    THEN [err |-> "", data |-> NoData]
    ELSE [err |-> "", data |-> toResponseData(getRole(name))]

\* A variant that also drops the cached client, as a config delete does.
pathRolesDeleteResetsClient(name, fp) ==
    IF fp = 1
    THEN RoleRes(roles, client, tokens, leases, "storage", "", 0, 0, NoRole)
    ELSE RoleRes([roles EXCEPT ![name] = NoRole], reset, tokens, leases, "",
                 "", 0, 0, NoRole)

\* A variant that deletes under a key no role is stored at.
pathRolesDeleteWrongKey(name, fp) ==
    IF fp = 1
    THEN RoleRes(roles, client, tokens, leases, "storage", "", 0, 0, NoRole)
    ELSE RoleRes(roles, client, tokens, leases, "", "", 0, 0, NoRole)

\* fp = 1: the storage delete fails.
pathRolesDelete(name, fp) ==
    IF fp = 1
    THEN RoleRes(roles, client, tokens, leases, "storage", "", 0, 0, NoRole)
    ELSE RoleRes([roles EXCEPT ![name] = NoRole], client, tokens, leases, "",
                 "", 0, 0, NoRole)

\* The keys under "role/" in the order the storage lists them.
RoleKeys == <<"r1", "r2">>

\* pathRolesList: the keys of the stored role entries.
pathRolesList ==
    SelectSeq(RoleKeys, LAMBDA n : n \in DOMAIN roles /\ roles[n].present)

\* createOrgToken and createTeamToken: read the organization or team,
\* then create its token with the client c.  fpCreate tells whether the
\* create call fails for a reason of its own.
createSingletonToken(ts, c, kind, ent, fpCreate) ==
    LET R(err, t1, token, id, calls) ==
            [err |-> err, tokens |-> t1, client |-> c, token |-> token,
             id |-> id, calls |-> calls]
    IN
    IF ~EntityExists(kind, ent) THEN R("remote_read", ts, "", "", 0)
    ELSE IF fpCreate \/ ~CanCreate(ts, c.token, kind, ent)
    THEN R("remote_create", ts, "", "", 1)
    ELSE LET ts1 == RemoteCreate(ts, kind, ent) IN
         R("", ts1, TokVal[Len(ts1)], AtID[Len(ts1)], 1)

createOrgToken(ts, c, organization, fpCreate) ==
    createSingletonToken(ts, c, organizationCredentialType, organization,
                         fpCreate)

createTeamToken(ts, c, teamID, fpCreate) ==
    createSingletonToken(ts, c, teamLegacyCredentialType, teamID, fpCreate)

\* The kinds rotate-role mints for: the kind stored on the entry is the
\* organization kind or the kind of the single token of a team, which are
\* the kinds a role write mints for.
RotatableKinds == {organizationCredentialType, teamLegacyCredentialType}

\* A variant that mints for an entry of any kind.
pathRotateRoleAnyKind(name, fp) ==
    LET e == getRole(name) IN
    IF ~e.present
    THEN RoleRes(roles, client, tokens, leases, "missing_role_entry", "",
                 0, 0, NoRole)
    ELSE
    LET r == createToken(tokens, e, fp = 1) IN
    IF r.err # ""
    THEN RoleRes(roles, r.client, r.tokens, leases, r.err, "", r.calls, 0, e)
    ELSE IF fp = 2
    THEN RoleRes(roles, r.client, r.tokens, leases, "storage", "", r.calls, 0, e)
    ELSE RoleRes(setRole(name, [e EXCEPT !.token = r.token]), r.client,
                 r.tokens, leases, "", "", r.calls, 0, e)

\* A variant that mints the token and forgets to store the entry.
pathRotateRoleNoSave(name, fp) ==
    LET e == getRole(name)
        cl == getClient
    IN
    IF ~e.present
    THEN RoleRes(roles, client, tokens, leases, "missing_role_entry", "",
                 0, 0, NoRole)
    ELSE IF ~cl.built
    THEN RoleRes(roles, cl, tokens, leases, "client_error", "", 0, 0, e)
    ELSE IF e.credentialType \notin RotatableKinds
    THEN RoleRes(roles, cl, tokens, leases, "cannot_rotate", "", 0, 0, e)
    ELSE
    LET r == IF e.credentialType = organizationCredentialType
             THEN createOrgToken(tokens, cl, e.organization, fp = 1)
             ELSE createTeamToken(tokens, cl, e.teamID, fp = 1)
    IN
    IF r.err # ""
    THEN RoleRes(roles, r.client, r.tokens, leases, r.err, "", r.calls, 0, e)
    ELSE IF fp = 2
    THEN RoleRes(roles, r.client, r.tokens, leases, "storage", "", r.calls, 0, e)
    ELSE RoleRes(roles, r.client, r.tokens, leases, "", "", r.calls, 0, e)

\* rotate-role: obtains the client, mints a token for a stored entry of
\* organization or single-team-token kind and caches its value on the
\* entry; any other kind is answered with an error response.  fp: 1 the
\* remote create fails, 2 the storage put fails.
pathRotateRole(name, fp) ==
    LET e == getRole(name)
        cl == getClient
    IN
    IF ~e.present
    THEN RoleRes(roles, client, tokens, leases, "missing_role_entry", "",
                 0, 0, NoRole)
    ELSE IF ~cl.built
    THEN RoleRes(roles, cl, tokens, leases, "client_error", "", 0, 0, e)
    ELSE IF e.credentialType \notin RotatableKinds
    THEN RoleRes(roles, cl, tokens, leases, "cannot_rotate", "", 0, 0, e)
    ELSE
    LET r == IF e.credentialType = organizationCredentialType
             THEN createOrgToken(tokens, cl, e.organization, fp = 1)
             ELSE createTeamToken(tokens, cl, e.teamID, fp = 1)
    IN
    IF r.err # ""
    THEN RoleRes(roles, r.client, r.tokens, leases, r.err, "", r.calls, 0, e)
    ELSE IF fp = 2
    THEN RoleRes(roles, r.client, r.tokens, leases, "storage", "", r.calls, 0, e)
    ELSE RoleRes(setRole(name, [e EXCEPT !.token = r.token]), r.client,
                 r.tokens, leases, "", "", r.calls, 0, e)

\* --------------------------------------------------- credential issuance
\* The secret the host tracks for a lease: the internal data the handler
\* attached (token_id, role, and token_type / team_id where the issuing
\* path sets them; "" when it does not; no issuing path sets organization),
\* the lease periods, and for the record the index of the remote token the
\* read minted and whether a revoke of the lease has succeeded.
Secret(token_id, role, token_type, team_id, e, minted) ==
    [token_id |-> token_id, role |-> role, token_type |-> token_type,
     team_id |-> team_id, organization |-> "", ttl |-> e.ttl,
     maxTTL |-> e.maxTTL, minted |-> minted, revoked |-> FALSE]

\* A variant that records the token id cached on the role in the lease.
createUserCredsCachedID(e, fp) ==
    LET r == createToken(tokens, e, fp = 1) IN
    IF r.err # ""
    THEN RoleRes(roles, r.client, r.tokens, leases, r.err, "", r.calls, 0, NoRole)
    ELSE RoleRes(roles, r.client, r.tokens,
                 Append(leases,
                        Secret(e.tokenID, e.name, "", "", e, Len(r.tokens))),
                 "", r.token, r.calls, Len(leases) + 1, NoRole)

\* createUserCreds and createMultiTeamCreds: one token per read, leased.
createUserCreds(e, fp) ==
    LET r == createToken(tokens, e, fp = 1) IN
    IF r.err # ""
    THEN RoleRes(roles, r.client, r.tokens, leases, r.err, "", r.calls, 0, NoRole)
    ELSE RoleRes(roles, r.client, r.tokens,
                 Append(leases, Secret(r.id, e.name, "", "", e, Len(r.tokens))),
                 "", r.token, r.calls, Len(leases) + 1, NoRole)

createMultiTeamCreds(e, fp) ==
    LET r == createToken(tokens, e, fp = 1) IN
    IF r.err # ""
    THEN RoleRes(roles, r.client, r.tokens, leases, r.err, "", r.calls, 0, NoRole)
    ELSE RoleRes(roles, r.client, r.tokens,
                 Append(leases, Secret(r.id, e.name, "", "", e, Len(r.tokens))),
                 "", r.token, r.calls, Len(leases) + 1, NoRole)

\* createTeam: reads the organization, creates the team and then, for each
\* workspace of the team options, reads the workspace and adds the team's
\* access.  fp: 1 the read or the create fails, 2 a workspace read or an
\* access add fails.
createTeam(ts, c, organization, fp) ==
    IF fp = 1 \/ ~CanCreateTeam(ts, c.token, organization)
    THEN [err |-> "remote_create", tokens |-> ts, teamID |-> ""]
    ELSE IF fp = 2
    THEN [err |-> "team_access", tokens |-> RemoteCreateTeam(ts),
          teamID |-> ""]
    ELSE [err |-> "", tokens |-> RemoteCreateTeam(ts),
          teamID |-> DtID[Len(ts) + 1]]

\* Issuance for a dynamic-team role: a team is created in the role's
\* organization, then its token; the lease carries the team.
createDynamicTeamCreds(e, fp) ==
    LET cl == getClient IN
    IF ~cl.built
    THEN RoleRes(roles, cl, tokens, leases, "client_error", "", 0, 0, NoRole)
    ELSE
    LET t == createTeam(tokens, cl, e.organization, fp)
        n == Len(t.tokens)
    IN
    IF t.err # ""
    THEN RoleRes(roles, cl, t.tokens, leases, t.err, "", 1, 0, NoRole)
    ELSE RoleRes(roles, cl, t.tokens,
                 Append(leases,
                        Secret(AtID[n], e.name, DynamicTeamTokenType,
                               t.teamID, e, n)),
                 "", TokVal[n], 1, Len(leases) + 1, NoRole)

IsDynamicTeamRole(e) == e.credentialType = DynamicTeamTokenType

\* Whether a creds read of the entry takes a path that issues a lease.
IssuesLease(e) ==
    \/ IsDynamicTeamRole(e)
    \/ e.userID # ""
    \/ (e.teamID # "" /\ MultipleTeamTokens(e))

\* A variant that answers a read of a role that is not stored with an
\* empty success.
pathCredentialsReadMissingOk(name, fp) ==
    LET e == getRole(name) IN
    IF ~e.present
    THEN RoleRes(roles, client, tokens, leases, "", "", 0, 0, NoRole)
    ELSE IF IsDynamicTeamRole(e) THEN createDynamicTeamCreds(e, fp)
    ELSE IF e.userID # "" THEN createUserCreds(e, fp)
    ELSE IF e.teamID # "" /\ MultipleTeamTokens(e)
    THEN createMultiTeamCreds(e, fp)
    ELSE RoleRes(roles, client, tokens, leases, "", e.token, 0, 0, NoRole)

\* fp = 1: the remote create fails.
pathCredentialsRead(name, fp) ==
    LET e == getRole(name) IN
    IF ~e.present
    THEN RoleRes(roles, client, tokens, leases, "role_nil", "", 0, 0, NoRole)
    ELSE IF IsDynamicTeamRole(e) THEN createDynamicTeamCreds(e, fp)
    ELSE IF e.userID # "" THEN createUserCreds(e, fp)
    ELSE IF e.teamID # "" /\ MultipleTeamTokens(e)
    THEN createMultiTeamCreds(e, fp)
    ELSE RoleRes(roles, client, tokens, leases, "", e.token, 0, 0, NoRole)

\* ------------------------------------------------------- lease lifecycle
OrganizationTokenType == "organization"
TeamTokenType == "team"

\* A variant that looks up the role named in the secret and deletes the
\* token the role caches; without a role there is nothing to delete.
terraformTokenRevokeFromRole(sec, fp) ==
    LET cl == getClient
        e == IF sec.role \in DOMAIN roles THEN roles[sec.role] ELSE NoRole
        R(ts, err, calls) ==
            RoleRes(roles, cl, ts, leases, err, "", calls, 0, NoRole)
    IN
    IF ~cl.built THEN R(tokens, "client_error", 0)
    ELSE IF ~e.present THEN R(tokens, "", 0)
    ELSE IF fp = 1 \/ ~AuthOK(tokens, cl.token) THEN R(tokens, "remote_delete", 1)
    ELSE IF ~CanDeleteByID(tokens, cl.token, e.tokenID)
    THEN R(tokens, "not_found", 1)
    ELSE R(RemoteDeleteByID(tokens, e.tokenID), "", 1)

\* Revoke of the secret sec.  fp = 1: the remote delete fails for a reason
\* of its own.  A delete of something that does not exist remotely is
\* answered not-found, which every branch returns as an error.
terraformTokenRevoke(sec, fp) ==
    LET cl == getClient
        R(ts, err, calls) ==
            RoleRes(roles, cl, ts, leases, err, "", calls, 0, NoRole)
    IN
    IF ~cl.built THEN R(tokens, "client_error", 0)
    ELSE IF sec.token_type = OrganizationTokenType
    THEN IF fp = 1 \/ ~AuthOK(tokens, cl.token) THEN R(tokens, "remote_delete", 1)
         ELSE IF ~CanDeleteSingleton(tokens, cl.token, organizationCredentialType,
                                     sec.organization)
         THEN R(tokens, "not_found", 1)
         ELSE R(RemoteDeleteSingleton(tokens, organizationCredentialType,
                                      sec.organization), "", 1)
    ELSE IF sec.token_type = DynamicTeamTokenType
    THEN IF fp = 1 \/ ~AuthOK(tokens, cl.token) THEN R(tokens, "remote_delete", 1)
         ELSE IF ~CanDeleteTeam(tokens, cl.token, sec.team_id)
         THEN R(tokens, "not_found", 1)
         ELSE R(RemoteDeleteTeam(tokens, sec.team_id), "", 1)
    ELSE IF sec.token_type = TeamTokenType
    THEN IF fp = 1 \/ ~AuthOK(tokens, cl.token) THEN R(tokens, "remote_delete", 1)
         ELSE IF ~CanDeleteSingleton(tokens, cl.token, teamLegacyCredentialType,
                                     sec.team_id)
         THEN R(tokens, "not_found", 1)
         ELSE R(RemoteDeleteSingleton(tokens, teamLegacyCredentialType,
                                      sec.team_id), "", 1)
    ELSE IF fp = 1 \/ ~AuthOK(tokens, cl.token) THEN R(tokens, "remote_delete", 1)
    ELSE IF ~CanDeleteByID(tokens, cl.token, sec.token_id)
    THEN R(tokens, "not_found", 1)
    ELSE R(RemoteDeleteByID(tokens, sec.token_id), "", 1)

\* A variant that renews the lease period with the role's max_ttl.
terraformTokenRenewMaxForTTL(sec) ==
    IF sec.role = Absent
    THEN [err |-> "missing_role_data", secret |-> sec]
    ELSE IF ~getRole(sec.role).present
    THEN [err |-> "role_nil", secret |-> sec]
    ELSE LET roleEntry == getRole(sec.role) IN
         [err |-> "",
          secret |-> [sec EXCEPT
                        !.ttl = IF roleEntry.ttl > 0 THEN roleEntry.maxTTL ELSE @,
                        !.maxTTL = IF roleEntry.maxTTL > 0
                                   THEN roleEntry.maxTTL ELSE @]]

\* A variant that renews a lease as it is when its role is gone.
terraformTokenRenewWithoutRole(sec) ==
    IF sec.role = Absent
    THEN [err |-> "missing_role_data", secret |-> sec]
    ELSE IF ~getRole(sec.role).present
    THEN [err |-> "", secret |-> sec]
    ELSE LET roleEntry == getRole(sec.role) IN
         [err |-> "",
          secret |-> [sec EXCEPT
                        !.ttl = IF roleEntry.ttl > 0 THEN roleEntry.ttl ELSE @,
                        !.maxTTL = IF roleEntry.maxTTL > 0
                                   THEN roleEntry.maxTTL ELSE @]]

\* Renew of the secret sec: the error, and the secret of the response
\* (the renewed lease when there is no error).
terraformTokenRenew(sec) ==
    IF sec.role = Absent
    THEN [err |-> "missing_role_data", secret |-> sec]
    ELSE IF ~getRole(sec.role).present
    THEN [err |-> "role_nil", secret |-> sec]
    ELSE LET roleEntry == getRole(sec.role) IN
         [err |-> "",
          secret |-> [sec EXCEPT
                        !.ttl = IF roleEntry.ttl > 0 THEN roleEntry.ttl ELSE @,
                        !.maxTTL = IF roleEntry.maxTTL > 0
                                   THEN roleEntry.maxTTL ELSE @]]

\* ------------------------------------------------------------- actions
RoleNames == {"r1"}

\* Requests that are inside getClient at the same time.
Callers == {"c1", "c2", "c3"}

NoLock == [w |-> "", r |-> {}]

\* The request that deletes the configuration.
Admins == {"admin"}

\* A request that is not in progress holds nothing.
NoRequest == [op |-> ""]

\* No request is inside getClient, between the steps of a delete or
\* between the steps of a role request.
NoCallers ==
    /\ lock = NoLock
    /\ pc = [c \in Callers \cup Admins |-> "idle"]
    /\ builds = 0
    /\ inflight = [c \in Callers |-> NoRequest]

ManagementToken == IF config.present THEN config.token ELSE ""

\* A handler of the configuration side took a step with result r.
ConfigStep(op, oldTok, r, j) ==
    /\ job' = j
    /\ config' = r.config
    /\ client' = r.client
    /\ tokens' = r.tokens
    /\ last' = Outcome(op, "", r.err, "", oldTok,
                       Minted(tokens, r.tokens), Killed(tokens, r.tokens),
                       r.calls, 0, NoRole)
    /\ UNCHANGED <<roles, leases, lock, pc, builds, inflight>>

RotateConfig ==
    \E fp \in 0..3 :
        ConfigStep("config/rotate", ManagementToken, rotateRootToken(fp), job)

RotateCredential ==
    /\ job
    /\ \E fp \in 0..3, crash \in BOOLEAN :
        ConfigStep("RotateCredential", ManagementToken,
                   rotateRoot(fp, crash), job)

\* The framework's existence check picks the operation of a config write.
pathConfigExistenceCheck == config.present

ConfigWrite(reqs) ==
    \E req \in reqs, fp \in 0..5 :
        LET op == IF pathConfigExistenceCheck THEN "update" ELSE "create" IN
        ConfigStep("config/write",
                   FieldOr(req.token, op, "", ManagementToken),
                   pathConfigWrite(op, req, fp), JobAfterWrite(op, req, fp))

ConfigDelete ==
    \E fp \in 0..1 :
        ConfigStep("config/delete", ManagementToken, pathConfigDelete(fp), job)

RotationOps == {"config/rotate", "RotateCredential", "config/write"}

\* A handler of the role side took a step with result r.
RoleStep(op, name, r) ==
    /\ roles' = r.roles
    /\ client' = r.client
    /\ tokens' = r.tokens
    /\ leases' = r.leases
    /\ last' = Outcome(op, name, r.err, r.token, ManagementToken,
                       Minted(tokens, r.tokens), Killed(tokens, r.tokens),
                       r.calls, r.lease, r.entry)
    /\ UNCHANGED <<config, job, lock, pc, builds, inflight>>

RoleWrite(reqs) ==
    \E name \in DOMAIN roles, req \in reqs, fp \in 0..2 :
        RoleStep("role/write", name, pathRolesWrite(name, req, fp))

RoleDelete ==
    \E name \in DOMAIN roles, fp \in 0..1 :
        RoleStep("role/delete", name, pathRolesDelete(name, fp))

RotateRole ==
    \E name \in DOMAIN roles, fp \in 0..2 :
        RoleStep("rotate-role", name, pathRotateRole(name, fp))

\* The host tracks at most MaxLeases leases in one run.
CredsRead ==
    \E name \in DOMAIN roles, fp \in 0..1 :
        /\ (getRole(name).present /\ IssuesLease(getRole(name)))
               => Len(leases) < MaxLeases
        /\ RoleStep("creds/read", name, pathCredentialsRead(name, fp))

\* The host revokes a lease it tracks; it may do so again for a lease
\* whose revoke already succeeded.
Revoke ==
    \E i \in DOMAIN leases, fp \in 0..1 :
        LET r == terraformTokenRevoke(leases[i], fp)
            ls == IF r.err = ""
                  THEN [leases EXCEPT ![i].revoked = TRUE] ELSE leases
        IN
        RoleStep("revoke", leases[i].role,
                 [r EXCEPT !.leases = ls, !.lease = i])

\* The host renews a lease it tracks and has not revoked, and keeps the
\* secret of a successful response.
Renew ==
    \E i \in DOMAIN leases :
        /\ ~leases[i].revoked
        /\ LET r == terraformTokenRenew(leases[i]) IN
           RoleStep("renew", leases[i].role,
                    RoleRes(roles, client, tokens,
                            IF r.err = ""
                            THEN [leases EXCEPT ![i] = r.secret] ELSE leases,
                            r.err, "", 0, i, NoRole))

\* ----------------------------------- specification of the config side
\* The operator's management token exists remotely before the plugin is
\* configured; a stored configuration describes it.
ManagementOwners ==
    {[kind |-> organizationCredentialType, ent |-> "o1", tokenType |-> "organization"],
     [kind |-> teamCredentialType, ent |-> "t1", tokenType |-> "team"],
     [kind |-> userCredentialType, ent |-> "u1", tokenType |-> "user"]}

InitConfigsFor(o) ==
    {NoConfig,
     [emptyConfig EXCEPT !.token = TokVal[1], !.address = defaultAddress,
                         !.basePath = defaultBasePath]}
    \cup
    {[present |-> TRUE, token |-> TokVal[1], tokenType |-> o.tokenType,
      id |-> o.ent, tokenID |-> tid, oldToken |-> old,
      address |-> defaultAddress, basePath |-> defaultBasePath,
      rotationPeriod |-> 1] :
        tid \in {"", AtID[1]}, old \in {"delete", "keep"}}

NoRoles == [n \in RoleNames |-> NoRole]

InitOutcome == Outcome("init", "", "", "", "", {}, {}, 0, 0, NoRole)

InitRotation ==
    \E o \in ManagementOwners :
        /\ tokens = <<[kind |-> o.kind, ent |-> o.ent, live |-> TRUE]>>
        /\ config \in InitConfigsFor(o)
        /\ job = (config.present /\ config.rotationPeriod # 0)
        /\ client = NoClient
        /\ roles = NoRoles
        /\ leases = <<>>
        /\ last = InitOutcome
        /\ NoCallers

\* Requests of the operator, who holds the management token tok1 and
\* knows whose token it is.
RotationConfigReqs ==
    LET o == [tokenType |-> IF tokens[1].kind = teamCredentialType
                            THEN "team" ELSE tokens[1].kind,
              ent |-> tokens[1].ent]
    IN
    LET Req(tok, tt, id, old, per, imm) ==
            [address |-> Absent, base_path |-> Absent, token |-> tok,
             token_type |-> tt, id |-> id,
             old_token |-> old, rotation_period |-> per,
             rotate_token_immediately |-> imm]
    IN
    {Req(TokVal[1], Absent, Absent, Absent, AbsentInt, Absent),
     Req(TokVal[1], o.tokenType, o.ent, Absent, 1, Absent),
     Req(TokVal[1], o.tokenType, o.ent, "keep", 1, Absent),
     Req(TokVal[1], o.tokenType, o.ent, Absent, 1, "false"),
     Req(Absent, Absent, Absent, Absent, 1, Absent),
     Req(Absent, Absent, Absent, Absent, 0, Absent),
     Req(TokVal[1], o.tokenType, Absent, Absent, 1, Absent)}

NextRotation ==
    \/ RotateConfig
    \/ RotateCredential
    \/ ConfigWrite(RotationConfigReqs)
    \/ ConfigDelete

SpecRotation == InitRotation /\ [][NextRotation]_vars

\* ------------------------------------- specification of the role side
\* The plugin is configured with the management token tok1, a token of
\* user u1.  The role store is empty, or holds a dynamic-team role.
RoleSideConfig ==
    [emptyConfig EXCEPT !.token = TokVal[1], !.address = defaultAddress,
                         !.basePath = defaultBasePath]

DynamicTeamRole(name) ==
    [emptyRole EXCEPT !.name = name, !.organization = "o1",
                      !.credentialType = DynamicTeamTokenType]

InitRoles ==
    /\ tokens = <<[kind |-> userCredentialType, ent |-> "u1", live |-> TRUE]>>
    /\ config = RoleSideConfig
    /\ job = FALSE
    /\ client = NoClient
    /\ roles \in [RoleNames -> {NoRole}]
                 \cup {[n \in RoleNames |-> DynamicTeamRole(n)]}
    /\ leases = <<>>
    /\ last = InitOutcome
    /\ NoCallers

RoleReq(ct, org, user, team, desc, ttl, max) ==
    [credential_type |-> ct, organization |-> org, user_id |-> user,
     team_id |-> team, description |-> desc, ttl |-> ttl, max_ttl |-> max]

\* Role writes: each kind with its own identifier, a credential type
\* with another kind's identifier, two identifiers at once, and an unknown
\* credential type.
RoleReqs ==
    LET Req(ct, org, user, team) ==
            RoleReq(ct, org, user, team, Absent, AbsentInt, AbsentInt)
    IN
    {Req(Absent, "o1", Absent, Absent),
     Req(Absent, Absent, Absent, "t1"),
     Req(teamCredentialType, Absent, Absent, "t1"),
     Req(Absent, Absent, "u1", Absent),
     Req(organizationCredentialType, Absent, "u1", Absent),
     Req(teamCredentialType, "o1", Absent, Absent),
     Req(Absent, "o1", "u1", Absent),
     Req(Absent, Absent, "u1", "t1"),
     Req("bogus", "o1", Absent, Absent)}

Next ==
    \/ RoleWrite(RoleReqs)
    \/ RoleDelete
    \/ RotateRole
    \/ CredsRead
    \/ Revoke

Spec == InitRoles /\ [][Next]_vars

\* ------------------------- specification of the role lease periods
\* Role writes that carry ttl and max_ttl, for a user role and for a
\* (legacy) team role.
TTLValues == {AbsentInt} \cup (0..MaxTTL)

RoleTTLReqs ==
    {RoleReq(Absent, Absent, "u1", Absent, Absent, ttl, max) :
        ttl \in TTLValues, max \in TTLValues}
    \cup
    {RoleReq(Absent, Absent, Absent, "t1", Absent, ttl, max) :
        ttl \in {AbsentInt, 1}, max \in {AbsentInt}}

InitRoleTTL == InitRoles /\ roles = NoRoles

NextRoleTTL ==
    \/ RoleWrite(RoleTTLReqs)
    \/ RoleDelete

SpecRoleTTL == InitRoleTTL /\ [][NextRoleTTL]_vars

\* --------------------------------- specification of the role store
\* Two role names, written and deleted in any order.
ListRoleNames == {"r1", "r2"}

\* Role writes that name no credential type, with one identifier or two,
\* and a write with the dynamic-team type and a team id.
KindlessRoleReqs ==
    LET Req(ct, org, user, team) ==
            RoleReq(ct, org, user, team, Absent, AbsentInt, AbsentInt)
    IN
    {Req(Absent, Absent, "u1", Absent),
     Req(Absent, "o1", Absent, Absent),
     Req(Absent, Absent, Absent, "t1"),
     Req(Absent, "o1", Absent, "t1"),
     Req(Absent, "o1", "u1", Absent),
     Req(DynamicTeamTokenType, "o1", Absent, "t1")}

\* The same, and writes that name a credential type with the identifier
\* of another kind.
RoleListReqs ==
    KindlessRoleReqs
    \cup {RoleReq(organizationCredentialType, Absent, "u1", Absent,
                  Absent, AbsentInt, AbsentInt),
          RoleReq(teamCredentialType, "o1", Absent, Absent,
                  Absent, AbsentInt, AbsentInt)}

InitRoleList ==
    /\ tokens = <<[kind |-> userCredentialType, ent |-> "u1", live |-> TRUE]>>
    /\ config = RoleSideConfig
    /\ job = FALSE
    /\ client = NoClient
    /\ roles = [n \in ListRoleNames |-> NoRole]
    /\ leases = <<>>
    /\ last = InitOutcome
    /\ NoCallers

NextRoleList ==
    \/ RoleWrite(RoleListReqs)
    \/ RoleDelete

SpecRoleList == InitRoleList /\ [][NextRoleList]_vars

\* The role store under writes that leave the credential type to the
\* handler.
NextRoleKinds ==
    \/ RoleWrite(KindlessRoleReqs)
    \/ RoleDelete

SpecRoleKinds == InitRoleList /\ [][NextRoleKinds]_vars

\* ------------------------------- specification of the lease periods
\* Roles whose lease periods are edited while leases issued from them are
\* renewed.
\* Lease periods a role of the lease runs carries: unset, the shortest
\* and the longest.
LeaseTTLValues == {AbsentInt, 1, MaxTTL}

\* Writes of a user role, the kind whose every read issues a lease.
LeaseRoleReqs ==
    {RoleReq(Absent, Absent, "u1", Absent, Absent, ttl, max) :
        ttl \in LeaseTTLValues, max \in {AbsentInt, MaxTTL}}

NextLease ==
    \/ RoleWrite(LeaseRoleReqs)
    \/ RoleDelete
    \/ CredsRead
    \/ Renew

SpecLease == InitRoleTTL /\ [][NextLease]_vars

\* ------------------------------------------------ root rotation claims
\* The pre-rotation management token was live and the operation ended it.
OldTokenGone == \E n \in last.killed : TokVal[n] = last.oldTok

\* C1: in every root rotation the new token is persisted before the old
\* one stops existing remotely: no state has the old management token gone
\* remotely by the rotation while storage still holds it.
C1_PersistBeforeOldTokenGone ==
    (last.op \in RotationOps /\ OldTokenGone)
        => ~(config.present /\ config.token = last.oldTok)

\* Errors that tell the caller a token was minted remotely but not saved,
\* and the bare storage error.
SavedAfterMintErrors ==
    {"save_after_rotation", "save_after_immediate_rotation"}
StorageErrors == SavedAfterMintErrors \cup {"storage"}

\* C4: when persisting fails after the remote mint, the rotation reports an
\* error that names this case and storage keeps the pre-rotation record.
C4_PersistFailureDistinguished ==
    [][(/\ last'.op \in {"config/rotate", "RotateCredential"}
        /\ last'.minted # {}
        /\ last'.err \in StorageErrors)
       => (last'.err \in SavedAfterMintErrors /\ config' = config)]_vars

\* C5: after a root rotation that returns success the stored token differs
\* from the pre-rotation token, and with disposition "delete" the
\* pre-rotation token no longer exists remotely.
C5_SuccessfulRotationReplacesToken ==
    (last.op \in {"config/rotate", "RotateCredential"} /\ last.err = "")
        => /\ config.present
           /\ config.token # last.oldTok
           /\ (config.oldToken = "delete" => ~ValueLive(tokens, last.oldTok))

LacksRotationFields(cfg) ==
    ~cfg.present \/ cfg.token = "" \/ cfg.tokenType = "" \/ cfg.id = ""

\* C6: a rotation requested on a configuration that is absent or lacks the
\* token, the kind or the identifier fails with an error before any remote
\* create or delete, and leaves configuration and cached client unchanged
\* (a cache filled lazily from the unchanged configuration counts as
\* unchanged).
C6_RotationPreconditions ==
    [][(/\ last'.op \in {"config/rotate", "RotateCredential"}
        /\ LacksRotationFields(config))
       => (/\ last'.err \notin {"", "panic"}
           /\ last'.calls = 0
           /\ config' = config
           /\ client' \in {client, getClient})]_vars

\* ------------------------------------------------- role and lease claims
\* The declared kind of a stored role.
SingletonRole(e) == e.present /\ e.credentialType \in SingletonKinds

PerReadRole(e) ==
    /\ e.present
    /\ e.credentialType \in
           {teamCredentialType, userCredentialType, DynamicTeamTokenType}

\* C2: a successful creds read of a role of organization or legacy-team
\* kind mints nothing and returns the token cached on the role entry, so
\* consecutive reads return the identical token.
C2_SingletonReadReturnsCached ==
    (last.op = "creds/read" /\ last.err = "" /\ SingletonRole(roles[last.name]))
        => (last.minted = {} /\ last.token = roles[last.name].token)

\* C3: a successful creds read of a role of team (multi-token), user or
\* dynamic-team kind mints a new remote token and returns its value, which
\* no earlier read returned.
C3_PerReadMintsFreshToken ==
    (last.op = "creds/read" /\ last.err = "" /\ PerReadRole(roles[last.name]))
        => \E n \in last.minted : last.token = TokVal[n]

UserWithOrgOrTeam(e) ==
    e.userID # "" /\ (e.organization # "" \/ e.teamID # "")

\* C7: a role write whose resulting entry carries a user id together with
\* an organization or a team id fails validation, makes no remote token
\* call and leaves role storage unchanged.
C7_ConflictingIdentifiersRejected ==
    [][(last'.op = "role/write" /\ UserWithOrgOrTeam(last'.entry))
       => (/\ last'.err \in ValidationErrors
           /\ last'.calls = 0
           /\ tokens' = tokens
           /\ roles' = roles)]_vars

\* A write that added a user id to a stored team role was rejected and the
\* stored entry kept.
C7_Witness ==
    /\ last.op = "role/write"
    /\ last.err = "conflicting_identifiers"
    /\ last.entry.userID # "" /\ last.entry.teamID # ""
    /\ roles[last.name].present
    /\ roles[last.name].userID = ""

TTLAboveMax(e) == e.maxTTL > 0 /\ e.ttl > e.maxTTL

\* C8: a role write whose resulting ttl is greater than its resulting
\* positive max_ttl fails and leaves the stored role unchanged, and no
\* stored role has ttl > max_ttl > 0.
C8_TTLWithinMaxTTL ==
    [][/\ (last'.op = "role/write" /\ TTLAboveMax(last'.entry))
          => (last'.err \in ValidationErrors /\ roles' = roles)
       /\ \A n \in RoleNames : roles'[n].present => ~TTLAboveMax(roles'[n])
      ]_vars

\* An update that raised only the ttl above the stored max_ttl was
\* rejected and the stored entry kept.
C8_Witness ==
    /\ last.op = "role/write"
    /\ last.err = "ttl_exceeds_max_ttl"
    /\ roles[last.name].present
    /\ roles[last.name].maxTTL = last.entry.maxTTL
    /\ roles[last.name].ttl < last.entry.ttl

\* C9: a revoke of a lease whose revoke already succeeded, which finds the
\* remote token or team gone, does not fail with the remote not-found.
C9_SecondRevokeSucceeds ==
    [][(last'.op = "revoke" /\ leases[last'.lease].revoked)
       => last'.err # "not_found"]_vars

\* C10: a successful revoke of a lease deletes the remote token (or the
\* dynamic team, with its token) that the creds read issuing the lease
\* created, and no other remote token.
C10_RevokeDeletesOwnToken ==
    [][(last'.op = "revoke" /\ last'.err = "")
       => LET sec == leases[last'.lease] IN
          /\ ~tokens'[sec.minted].live
          /\ \A n \in DOMAIN tokens :
                n # sec.minted => tokens'[n].live = tokens[n].live]_vars

\* A lease was revoked while the token of another lease stays live.
C10_Witness ==
    /\ last.op = "revoke"
    /\ last.err = ""
    /\ ~tokens[leases[last.lease].minted].live
    /\ \E j \in DOMAIN leases :
          j # last.lease /\ tokens[leases[j].minted].live

\* The internal data names everything a revoke needs.
LeaseInternalDataComplete(sec) ==
    /\ sec.token_id # ""
    /\ sec.token_type # ""
    /\ sec.role # ""
    /\ (sec.token_type = OrganizationTokenType => sec.organization # "")
    /\ (sec.token_type \in {TeamTokenType, DynamicTeamTokenType}
           => sec.team_id # "")

\* C11: the internal data of every lease a creds read issued holds the
\* token id, the credential kind, the role name and the organization or
\* team id the kind needs.
C11_LeaseInternalDataComplete ==
    \A i \in DOMAIN leases : LeaseInternalDataComplete(leases[i])

\* The live remote tokens that the kind and resource id of the internal
\* data address.
RevokeTarget(sec, ts) ==
    {n \in DOMAIN ts :
        /\ ts[n].live
        /\ CASE sec.token_type = OrganizationTokenType ->
                    ts[n].kind = organizationCredentialType
                    /\ ts[n].ent = sec.organization
             [] sec.token_type = DynamicTeamTokenType ->
                    ts[n].kind = DynamicTeamTokenType /\ ts[n].ent = sec.team_id
             [] sec.token_type = TeamTokenType ->
                    ts[n].kind = teamLegacyCredentialType
                    /\ ts[n].ent = sec.team_id
             [] OTHER -> AtID[n] = sec.token_id}

\* C12: what a revoke deletes and what it returns is decided by the kind
\* and resource id of the lease's internal data and the remote state, the
\* same whether the role is present, edited or deleted, and the revoke
\* leaves the role store as it is.
C12_RevokeFromInternalDataOnly ==
    [][(last'.op = "revoke")
       => LET target == RevokeTarget(leases[last'.lease], tokens) IN
          /\ roles' = roles
          /\ last'.killed = (IF last'.err = "" THEN target ELSE {})
          /\ (last'.err = "" => (target # {} /\ last'.calls = 1))
          /\ (last'.err = "not_found" => target = {})]_vars

\* A lease was revoked after its role had been deleted.
C12_Witness ==
    /\ last.op = "revoke"
    /\ last.err = ""
    /\ last.killed # {}
    /\ ~roles[last.name].present

\* ------------------------------------------------- cached client claims
\* The client built from what storage holds now.
ClientOfStoredConfig ==
    newClient(IF config.present THEN config ELSE emptyConfig)

\* C13: after a configuration write or delete that succeeded, the client
\* the next request obtains is the one built from the configuration in
\* storage (none when there is no usable configuration), never a client
\* built from the previous configuration.
C13_ClientFollowsStoredConfig ==
    (last.op \in {"config/write", "config/delete"} /\ last.err = "")
        => getClient = ClientOfStoredConfig

\* A config write rotated the token it was given, and the next client is
\* built from the rotated token in storage.
C13_Witness ==
    /\ last.op = "config/write"
    /\ last.err = ""
    /\ last.minted # {}
    /\ config.token # last.oldTok
    /\ getClient.built
    /\ getClient.token = config.token

\* ---------------------------------------------------------- renew claims
\* C14: a successful renew gives the lease the ttl of the role entry now
\* stored under the role name of the internal data when that ttl is
\* positive, and the role's current max_ttl when that is positive; a
\* period the role does not set stays as it was.
C14_RenewAppliesCurrentRolePeriods ==
    [][(last'.op = "renew" /\ last'.err = "")
       => LET e == roles[last'.name]
              old == leases[last'.lease]
              new == leases'[last'.lease]
          IN
          /\ e.present
          /\ new.ttl = (IF e.ttl > 0 THEN e.ttl ELSE old.ttl)
          /\ new.maxTTL = (IF e.maxTTL > 0 THEN e.maxTTL ELSE old.maxTTL)
          /\ new = [old EXCEPT !.ttl = new.ttl, !.maxTTL = new.maxTTL]]_vars

\* A lease was renewed to the role's current ttl, and a lease issued later
\* from the same role carries another ttl: the role was edited since.
C14_Witness ==
    /\ last.op = "renew"
    /\ last.err = ""
    /\ roles[last.name].ttl > 0
    /\ roles[last.name].maxTTL > roles[last.name].ttl
    /\ leases[last.lease].ttl = roles[last.name].ttl
    /\ \E j \in DOMAIN leases :
          /\ j > last.lease
          /\ leases[j].role = last.name
          /\ leases[j].ttl # roles[last.name].ttl

\* C15: a renew of a lease whose role is no longer stored returns an error
\* and no renewed lease.
C15_RenewWithoutRoleFails ==
    [][(last'.op = "renew" /\ ~roles[last'.name].present)
       => (last'.err # "" /\ leases' = leases)]_vars

\* A renew failed because the role of the lease had been deleted.
C15_Witness ==
    /\ last.op = "renew"
    /\ last.err = "role_nil"
    /\ last.lease \in DOMAIN leases
    /\ ~roles[last.name].present

\* ------------------------------------------------------ role list claims
ListedNames == {pathRolesList[k] : k \in DOMAIN pathRolesList}

\* C16: the list of roles gains a name exactly when a role write of it
\* succeeds and loses it exactly when a role delete of it succeeds, and
\* holds every name once: it is the set of roles written and not deleted.
C16_ListIsWrittenMinusDeleted ==
    [][/\ (last'.op = "role/write" /\ last'.err = "")
             => ListedNames' = ListedNames \cup {last'.name}
       /\ (last'.op = "role/delete" /\ last'.err = "")
             => ListedNames' = ListedNames \ {last'.name}
       /\ (last'.err # "") => ListedNames' = ListedNames
       /\ Len(pathRolesList') = Cardinality(ListedNames')
      ]_vars

\* Two distinct roles were created and the list has exactly two names.
C16_Witness ==
    /\ last.op = "role/write"
    /\ last.err = ""
    /\ \A n \in ListRoleNames : n \in DOMAIN roles /\ roles[n].present
    /\ Len(pathRolesList) = 2
    /\ ListedNames = ListRoleNames

\* ---------------------------------------------------- rotate-role claims
\* C17: after a successful rotate-role of a role of organization or
\* legacy-team kind the token cached on the role is the one the rotation
\* minted, and the next creds read returns a token that no read before the
\* rotation returned: for a role with an organization or team identifier,
\* the cached new token.
C17_RotateRoleReplacesCachedToken ==
    (last.op = "rotate-role" /\ last.err = "" /\ SingletonRole(roles[last.name]))
        => LET e == roles[last.name]
               r == pathCredentialsRead(last.name, 0)
           IN
           /\ \E n \in last.minted : e.token = TokVal[n]
           /\ (e.userID = "" => (r.err = "" /\ r.token = e.token))
           /\ (r.err = "" =>
                  \E n \in DOMAIN r.tokens :
                      /\ r.token = TokVal[n]
                      /\ (n \in last.minted \/ n > Len(tokens)))

\* An organization role whose token had been read was rotated: the cached
\* token is the third the platform minted, after the management token and
\* the token of the role write.
C17_Witness ==
    /\ last.op = "rotate-role"
    /\ last.err = ""
    /\ roles[last.name].credentialType = organizationCredentialType
    /\ roles[last.name].organization # ""
    /\ roles[last.name].token = TokVal[3]
    /\ ~tokens[2].live
    /\ pathCredentialsRead(last.name, 0).token = TokVal[3]

\* ------------------------------------------------ stored record claims
RotationPolicySet(cfg) == cfg.present /\ cfg.rotationPeriod # 0

\* C18: a stored configuration with a rotation policy also has the token
\* kind and the identifier: a write that sets a policy without them is
\* not persisted.
C18_RotationPolicyHasKindAndID ==
    RotationPolicySet(config) => (config.tokenType # "" /\ config.id # "")

\* The identifiers of a stored entry are those of its declared kind and
\* of no other kind.
IdentifierGroupConsistent(e) ==
    CASE e.credentialType = organizationCredentialType ->
             e.organization # "" /\ e.teamID = "" /\ e.userID = ""
      [] e.credentialType \in {teamLegacyCredentialType, teamCredentialType} ->
             e.teamID # "" /\ e.userID = ""
      [] e.credentialType = userCredentialType ->
             e.userID # "" /\ e.organization = "" /\ e.teamID = ""
      [] e.credentialType = DynamicTeamTokenType ->
             e.organization # "" /\ e.teamID = "" /\ e.userID = ""
      [] OTHER -> FALSE

\* C19: every stored role entry has the identifiers of exactly one kind,
\* the kind it declares.
C19_StoredRoleMatchesKind ==
    \A n \in DOMAIN roles :
        roles[n].present => IdentifierGroupConsistent(roles[n])

\* The kind the identifiers of an entry stand for.
InferredKind(e) ==
    IF e.userID # "" THEN userCredentialType
    ELSE IF e.teamID # "" THEN teamLegacyCredentialType
    ELSE organizationCredentialType

\* The role write request req explains the step.
WriteStepOf(name, req) ==
    \E fp \in 0..2 :
        LET r == pathRolesWrite(name, req, fp) IN
        /\ r.err = last'.err
        /\ r.roles = roles'
        /\ r.tokens = tokens'

\* C20: a successful role write that names no credential type stores the
\* kind of the resulting identifiers (organization alone: organization;
\* organization and team id: legacy team; user id: user), and a write
\* with the dynamic-team type is rejected when the entry has a team id or
\* a user id or lacks the organization.
C20_KindInferredFromIdentifiers ==
    [][(last'.op = "role/write")
       => /\ \A req \in KindlessRoleReqs :
                (/\ req.credential_type = Absent
                 /\ last'.err = ""
                 /\ WriteStepOf(last'.name, req))
                => roles'[last'.name].credentialType
                       = InferredKind(roles'[last'.name])
          /\ (/\ last'.entry.credentialType = DynamicTeamTokenType
              /\ (\/ last'.entry.teamID # ""
                  \/ last'.entry.userID # ""
                  \/ last'.entry.organization = ""))
                => last'.err # ""]_vars

\* ---------------------------------- specification of legacy team roles
\* Role writes around the legacy team kind: an organization alone, a team
\* id alone, and a team id, a description or lease periods added to what
\* is stored.
LegacyTeamReqs ==
    {RoleReq(Absent, "o1", Absent, Absent, Absent, AbsentInt, AbsentInt),
     RoleReq(Absent, Absent, Absent, "t1", Absent, AbsentInt, AbsentInt),
     RoleReq(Absent, Absent, Absent, "t1", Absent, 1, MaxTTL),
     RoleReq(Absent, Absent, Absent, "t1", "d1", AbsentInt, AbsentInt),
     RoleReq(Absent, Absent, Absent, Absent, "d1", AbsentInt, AbsentInt),
     RoleReq(Absent, Absent, Absent, Absent, Absent, 1, AbsentInt),
     RoleReq(teamCredentialType, Absent, Absent, "t1", Absent, 1, MaxTTL)}

NextLegacyTeam ==
    \/ RoleWrite(LegacyTeamReqs)
    \/ RoleDelete

SpecLegacyTeam == InitRoleList /\ [][NextLegacyTeam]_vars

\* An entry of legacy team kind: it declares the kind, or it is an
\* organization entry that a team id was added to.
LegacyTeamKind(e) ==
    \/ e.credentialType = teamLegacyCredentialType
    \/ (e.credentialType = organizationCredentialType /\ e.teamID # "")

HasCosmetics(e) == e.description # "" \/ e.ttl # 0 \/ e.maxTTL # 0

\* C21: a role write whose resulting entry is of legacy team kind and has
\* a description, a ttl or a max_ttl fails validation, mints no remote
\* token and leaves the stored role unchanged, also when it adds a team id
\* and lease periods to a stored organization role.
C21_LegacyTeamCosmeticsRejected ==
    [][(/\ last'.op = "role/write"
        /\ LegacyTeamKind(last'.entry)
        /\ HasCosmetics(last'.entry))
       => (/\ last'.err \in ValidationErrors
           /\ last'.minted = {}
           /\ last'.calls = 0
           /\ roles' = roles)]_vars

FrameRoleReqs ==
    {RoleReq(Absent, Absent, "u1", Absent, Absent, AbsentInt, AbsentInt),
     RoleReq(Absent, "o1", Absent, Absent, Absent, AbsentInt, AbsentInt)}

NextRoleFrame ==
    \/ RoleWrite(FrameRoleReqs)
    \/ RoleDelete
    \/ CredsRead

SpecRoleFrame == InitRoleList /\ [][NextRoleFrame]_vars

\* C23: a successful role delete removes the stored entry of that role
\* and nothing else: no remote call, no remote token deleted, and the
\* configuration, the cached client, the other roles and the leases are as
\* before; a read of a role that is not stored returns no data and no
\* error.
C23_RoleDeleteRemovesEntryOnly ==
    [][/\ (last'.op = "role/delete" /\ last'.err = "")
          => /\ roles' = [roles EXCEPT ![last'.name] = NoRole]
             /\ last'.calls = 0
             /\ tokens' = tokens
             /\ config' = config
             /\ client' = client
             /\ leases' = leases
             /\ job' = job
       /\ \A n \in DOMAIN roles :
             (~roles'[n].present \/ (last'.op = "role/delete"
                                     /\ last'.err = "" /\ last'.name = n))
                => pathRolesRead(n)' = [err |-> "", data |-> NoData]
      ]_vars

\* A role was deleted while a lease issued from it is outstanding, its
\* remote token still live, another role stored and the client cached.
C23_Witness ==
    /\ last.op = "role/delete"
    /\ last.err = ""
    /\ ~roles[last.name].present
    /\ \E n \in DOMAIN roles : roles[n].present
    /\ client.built
    /\ \E i \in DOMAIN leases :
          leases[i].role = last.name /\ tokens[leases[i].minted].live

\* ------------------------------------------ failure direction claims
\* C24: when a role write or a rotate-role of a stored role fails at the
\* remote mint or at the storage write, the token cached on the stored
\* role, valid before, is still a valid remote token afterwards: a storage
\* failure after a successful mint does not leave the role holding a token
\* the mint has invalidated.
C24_FailureKeepsCachedTokenValid ==
    [][(/\ last'.op \in {"role/write", "rotate-role"}
        /\ last'.err # ""
        /\ SingletonRole(roles[last'.name])
        /\ ValueLive(tokens, roles[last'.name].token))
       => (/\ roles'[last'.name].present
           /\ ValueLive(tokens', roles'[last'.name].token))]_vars

\* ------------------------- specification of the configuration fields
\* Config writes that supply or leave out address, base_path and token,
\* without a rotation policy, with one, and with one that does not rotate
\* at once.
ConfigFieldReqs ==
    LET o == [tokenType |-> IF tokens[1].kind = teamCredentialType
                            THEN "team" ELSE tokens[1].kind,
              ent |-> tokens[1].ent]
        Req(a, bp, tok, tt, id, per, imm) ==
            [address |-> a, base_path |-> bp, token |-> tok, token_type |-> tt,
             id |-> id, old_token |-> Absent, rotation_period |-> per,
             rotate_token_immediately |-> imm]
    IN
    {Req(Absent, Absent, TokVal[1], Absent, Absent, AbsentInt, Absent),
     Req("https://tfe.local", "/v1/", Absent, Absent, Absent, AbsentInt, Absent),
     Req("https://tfe.local", Absent, Absent, Absent, Absent, AbsentInt, Absent),
     Req(Absent, "/v1/", Absent, Absent, Absent, AbsentInt, Absent),
     Req(Absent, Absent, TokVal[1], o.tokenType, o.ent, 1, Absent),
     Req(Absent, "/v1/", Absent, o.tokenType, o.ent, 1, Absent),
     Req("https://tfe.local", Absent, Absent, o.tokenType, o.ent, 1, "false"),
     Req(Absent, Absent, TokVal[1], o.tokenType, o.ent, 1, "false")}

\* An update request that reaches the handler when no configuration is
\* stored: the caller names the operation, or the configuration was
\* deleted after the existence check.
ConfigUpdateAbsent(reqs) ==
    /\ ~pathConfigExistenceCheck
    /\ \E req \in reqs, fp \in 0..5 :
          ConfigStep("config/write", FieldOr(req.token, "update", "", ""),
                     pathConfigWrite("update", req, fp),
                     JobAfterWrite("update", req, fp))

NextConfigFields ==
    \/ ConfigWrite(ConfigFieldReqs)
    \/ ConfigUpdateAbsent(ConfigFieldReqs)
    \/ ConfigDelete

\* The management token is a token of user u1.
InitConfigFields == InitRotation /\ tokens[1].kind = userCredentialType

SpecConfigFields == InitConfigFields /\ [][NextConfigFields]_vars

\* The operations a config write can arrive with.
WriteOps == IF config.present THEN {"update"} ELSE {"create", "update"}

\* The config write request req, arriving as op, explains the step.
ConfigWriteStepOf(op, req) ==
    \E fp \in 0..5 :
        LET r == pathConfigWrite(op, req, fp) IN
        /\ r.err = last'.err
        /\ r.config = config'
        /\ r.tokens = tokens'

StoredOrEmpty == IF config.present THEN config ELSE emptyConfig

\* After a successful write of req as op, address and base_path are the
\* supplied value, else the stored one on update and the default on create.
AddressFieldsFollow(op, req) ==
    /\ config'.address =
           (IF req.address # Absent THEN req.address
            ELSE IF op = "update" THEN StoredOrEmpty.address
            ELSE defaultAddress)
    /\ config'.basePath =
           (IF req.base_path # Absent THEN req.base_path
            ELSE IF op = "update" THEN StoredOrEmpty.basePath
            ELSE defaultBasePath)

\* The same for the token, where the request supplies it or is an update.
TokenFieldFollows(op, req) ==
    (req.token # Absent \/ op = "update")
        => config'.token =
               (IF req.token # Absent THEN req.token
                ELSE StoredOrEmpty.token)

\* C25: a config update changes only the fields supplied and keeps the
\* stored address, base_path and token that are not supplied; a config
\* create sets an unsupplied address and base_path to their defaults; an
\* update when no configuration is stored fails and creates nothing.
C25_UpdateKeepsUnsuppliedFields ==
    [][(last'.op = "config/write" /\ (last'.err = "" \/ ~config.present))
       => \A op \in WriteOps, req \in ConfigFieldReqs :
             ConfigWriteStepOf(op, req)
                => IF op = "update" /\ ~config.present
                   THEN last'.err # "" /\ config' = config
                   ELSE last'.err = ""
                           => /\ AddressFieldsFollow(op, req)
                              /\ TokenFieldFollows(op, req)]_vars

\* C25, amended: as above, except that a write that rotates the
\* management token at once stores the token the rotation minted in place
\* of the supplied or stored one.
C25_UpdateKeepsUnsuppliedFieldsUnlessRotated ==
    [][(last'.op = "config/write" /\ (last'.err = "" \/ ~config.present))
       => \A op \in WriteOps, req \in ConfigFieldReqs :
             ConfigWriteStepOf(op, req)
                => IF op = "update" /\ ~config.present
                   THEN last'.err # "" /\ config' = config
                   ELSE last'.err = ""
                           => /\ AddressFieldsFollow(op, req)
                              /\ IF last'.minted = {}
                                 THEN TokenFieldFollows(op, req)
                                 ELSE \E n \in last'.minted :
                                         config'.token = TokVal[n]]_vars

\* An update of a configuration that had a token id moved the address and
\* kept the base path, the token and the token id, without rotating.
C25_Witness ==
    /\ last.op = "config/write"
    /\ last.err = ""
    /\ last.minted = {}
    /\ config.present
    /\ config.tokenID = AtID[1]
    /\ config.address = "https://tfe.local"
    /\ config.basePath = defaultBasePath
    /\ config.token = TokVal[1]

\* --------------------------------------------------- config read claims
\* The keys of a config read response, and its values of string type.
ConfigReadKeys ==
    {"present", "address", "base_path", "rotation_period", "token_type",
     "id", "old_token"}

ConfigReadStrings(resp) ==
    {resp.address, resp.base_path, resp.token_type, resp.id, resp.old_token}

\* Token values a stored configuration can hold.
TokenValues == {""} \cup {TokVal[n] : n \in 1..MaxTokens}

\* C26: the config read response does not contain the management token:
\* it holds address and base_path, and the rotation fields when a rotation
\* policy is set, and stored configurations that differ only in the token
\* read the same.
C26_ConfigReadHidesToken ==
    config.present
        => LET resp == pathConfigRead(config) IN
           /\ DOMAIN resp = ConfigReadKeys
           /\ resp.address = config.address
           /\ resp.base_path = config.basePath
           /\ (config.token # "" => config.token \notin ConfigReadStrings(resp))
           /\ (RotationPolicySet(config) <=> resp.rotation_period # AbsentInt)
           /\ \A tok \in TokenValues :
                 pathConfigRead([config EXCEPT !.token = tok]) = resp

\* A configuration with a rotation policy, whose token a write rotated, is
\* read: the response has the rotation fields.
C26_Witness ==
    /\ config.present
    /\ RotationPolicySet(config)
    /\ config.token = TokVal[2]
    /\ config.address = "https://tfe.local"
    /\ pathConfigRead(config).token_type = "user"
    /\ pathConfigRead(config).id # Absent

\* ------------------------- specification of the cached client's lock
\* getClient, step by step.  A caller takes the read lock, which the
\* lock grants when no writer holds it and no caller waits for the write
\* lock,
getClientRLock(c) ==
    /\ pc[c] = "idle"
    /\ lock.w = ""
    /\ \A d \in Callers : pc[d] # "unlocked"
    /\ lock' = [lock EXCEPT !.r = @ \cup {c}]
    /\ pc' = [pc EXCEPT ![c] = "rlocked"]
    /\ UNCHANGED <<config, client, roles, leases, tokens, job, last, builds,
                   inflight>>

\* A variant that keeps the read lock when it goes on to build the client.
getClientCheckKeepsRLock(c) ==
    /\ pc[c] = "rlocked"
    /\ lock' = IF client.built THEN [lock EXCEPT !.r = @ \ {c}] ELSE lock
    /\ pc' = [pc EXCEPT ![c] = IF client.built THEN "idle" ELSE "unlocked"]
    /\ UNCHANGED <<config, client, roles, leases, tokens, job, last, builds,
                   inflight>>

\* returns the cached client if there is one and otherwise gives the read
\* lock up,
getClientCheck(c) ==
    /\ pc[c] = "rlocked"
    /\ lock' = [lock EXCEPT !.r = @ \ {c}]
    /\ pc' = [pc EXCEPT ![c] = IF client.built THEN "idle" ELSE "unlocked"]
    /\ UNCHANGED <<config, client, roles, leases, tokens, job, last, builds,
                   inflight>>

\* takes the write lock,
getClientLock(c) ==
    /\ pc[c] = "unlocked"
    /\ lock = NoLock
    /\ lock' = [lock EXCEPT !.w = c]
    /\ pc' = [pc EXCEPT ![c] = "locked"]
    /\ UNCHANGED <<config, client, roles, leases, tokens, job, last, builds,
                   inflight>>

\* and, holding it, reads the configuration, puts an empty configuration
\* in the place of a missing one if the cache is (still) empty, builds a
\* client from what it has, caches the outcome, error or not, and returns.
\* newClient of no configuration at all is the error "config_nil".
getClientBuild(c) ==
    LET nilConfig == ~config.present /\ client.built
        built == IF nilConfig THEN NoClient
                 ELSE newClient(IF config.present THEN config ELSE emptyConfig)
        err == IF nilConfig THEN "config_nil"
               ELSE IF ~built.built THEN "client_error" ELSE ""
    IN
    /\ pc[c] = "locked"
    /\ client' = built
    /\ builds' = IF client'.built THEN builds + 1 ELSE builds
    /\ lock' = NoLock
    /\ pc' = [pc EXCEPT ![c] = "idle"]
    /\ last' = Outcome("getClient", c, err, "", "", {}, {}, 0, 0, NoRole)
    /\ UNCHANGED <<config, roles, leases, tokens, job, inflight>>

\* invalidate("config"): reset under the write lock.
invalidate ==
    /\ lock = NoLock
    /\ client' = reset
    /\ builds' = 0
    /\ UNCHANGED <<config, roles, leases, tokens, job, last, lock, pc,
                   inflight>>

\* pathConfigDelete, step by step: the storage delete,
pathConfigDeleteStorage ==
    /\ pc["admin"] = "idle"
    /\ config.present
    /\ config' = NoConfig
    /\ pc' = [pc EXCEPT !["admin"] = "deleted"]
    /\ UNCHANGED <<client, roles, leases, tokens, job, last, lock, builds,
                   inflight>>

\* and then reset, which takes the write lock.
pathConfigDeleteReset ==
    /\ pc["admin"] = "deleted"
    /\ lock = NoLock
    /\ client' = reset
    /\ builds' = 0
    /\ pc' = [pc EXCEPT !["admin"] = "idle"]
    /\ UNCHANGED <<config, roles, leases, tokens, job, last, lock, inflight>>

\* The plugin is configured with the management token, or not at all.
InitClientCache ==
    /\ tokens = <<[kind |-> userCredentialType, ent |-> "u1", live |-> TRUE]>>
    /\ config \in {RoleSideConfig, NoConfig}
    /\ job = FALSE
    /\ client = NoClient
    /\ roles = NoRoles
    /\ leases = <<>>
    /\ last = InitOutcome
    /\ NoCallers

NextClientCache ==
    \/ \E c \in Callers :
          \/ getClientRLock(c)
          \/ getClientCheck(c)
          \/ getClientLock(c)
          \/ getClientBuild(c)
    \/ invalidate
    \/ pathConfigDeleteStorage
    \/ pathConfigDeleteReset

SpecClientCache == InitClientCache /\ [][NextClientCache]_vars

\* C27: a caller that takes the write lock when another caller has built
\* the client since it looked returns that client without building one:
\* between two invalidations the client is built at most once.
C27_ClientBuiltOncePerInvalidation ==
    [][/\ \A c \in Callers :
             (pc[c] = "locked" /\ pc'[c] = "idle" /\ client.built)
                => (client' = client /\ builds' = builds)
       /\ builds' <= 1
      ]_vars

\* ------------------------------------------- old token disposal claims
\* C28: a root rotation makes a remote delete call for the old management
\* token only when the disposition is "delete" and the token kind is team
\* or user; for the organization kind and for the disposition "keep" its
\* only remote call is the create.
C28_OldTokenDeletedOnlyForTeamOrUser ==
    [][(last'.op \in RotationOps)
       => /\ last'.calls \in 0..2
          /\ (last'.calls = 2)
                => /\ config'.present
                   /\ config'.oldToken = "delete"
                   /\ config'.tokenType \in {"team", "user"}]_vars

\* A rotation of a team token with the disposition "delete" deleted the old
\* token after creating the new one.
C28_Witness ==
    /\ last.op \in RotationOps
    /\ last.err = ""
    /\ last.calls = 2
    /\ last.minted # {}
    /\ config.tokenType = "team"
    /\ config.oldToken = "delete"
    /\ ~ValueLive(tokens, last.oldTok)

\* ------------------------------------------- rotation on write claims
\* The write of req as op leaves a rotation policy in force and does not
\* turn the immediate rotation off.
RotatesOnWrite(op, req) ==
    /\ ~(op = "update" /\ ~config.present)
    /\ (IF req.rotation_period # AbsentInt
        THEN req.rotation_period ELSE StoredOrEmpty.rotationPeriod) # 0
    /\ req.rotate_token_immediately \in {Absent, "true"}

\* The token the write of req as op hands to the rotation.
TokenBeforeRotation(op, req) ==
    IF req.token # Absent THEN req.token
    ELSE IF op = "update" THEN StoredOrEmpty.token ELSE ""

\* C29: a config write that sets a rotation policy and leaves
\* rotate_token_immediately true returns success only after it has rotated
\* the management token: the stored token is then the newly minted, live
\* one and not the supplied one, and the cached client is dropped; when
\* the rotation or the second storage write fails the write returns an
\* error.
C29_WriteWithPolicyRotatesAtOnce ==
    [][(last'.op = "config/write" /\ last'.err = "")
       => \A op \in WriteOps, req \in RotationConfigReqs :
             (ConfigWriteStepOf(op, req) /\ RotatesOnWrite(op, req))
                => /\ Cardinality(last'.minted) = 1
                   /\ \A n \in last'.minted :
                         config'.token = TokVal[n] /\ tokens'[n].live
                   /\ config'.token # TokenBeforeRotation(op, req)
                   /\ client' = NoClient]_vars

\* A config create with a rotation policy rotated the supplied token tok1:
\* storage holds the second token of the platform and no client is cached.
C29_Witness ==
    /\ last.op = "config/write"
    /\ last.err = ""
    /\ last.oldTok = TokVal[1]
    /\ last.minted = {2}
    /\ config.present
    /\ config.rotationPeriod = 1
    /\ config.token = TokVal[2]
    /\ config.id = AtID[2]
    /\ config.tokenID = ""
    /\ tokens[2].live
    /\ ~client.built

\* ------------------------------------------- creds read of a missing role
\* C30: a creds read for a role name that is not stored returns an error
\* and no token, makes no remote call and mints nothing; the roles, the
\* configuration, the remote tokens and the tracked leases are unchanged.
C30_CredsReadOfMissingRoleFails ==
    [][(last'.op = "creds/read" /\ ~roles[last'.name].present)
       => /\ last'.err # ""
          /\ last'.token = ""
          /\ last'.calls = 0
          /\ last'.minted = {}
          /\ last'.lease = 0
          /\ tokens' = tokens
          /\ roles' = roles
          /\ config' = config
          /\ leases' = leases]_vars

\* A creds read of a name without an entry failed while another role was
\* stored with its token and a lease of it was tracked.
C30_Witness ==
    /\ last.op = "creds/read"
    /\ last.err = "role_nil"
    /\ ~roles[last.name].present
    /\ \E n \in DOMAIN roles : roles[n].present /\ roles[n].userID # ""
    /\ leases # <<>>
    /\ Len(tokens) > 1

\* ------------------------------------------- rotate-role refusals
\* C31: rotate-role on a role of user kind, or on a name without a stored
\* entry, returns an error, makes no remote call, mints no token and
\* leaves the stored roles as they were.
C31_RotateRoleRefusesUserAndMissing ==
    [][(/\ last'.op = "rotate-role"
        /\ \/ ~roles[last'.name].present
           \/ roles[last'.name].credentialType = userCredentialType
           \/ roles[last'.name].userID # "")
       => /\ last'.err # ""
          /\ last'.calls = 0
          /\ last'.minted = {}
          /\ tokens' = tokens
          /\ roles' = roles]_vars

\* rotate-role of a stored user role was refused after the handler had
\* obtained the client.
C31_Witness ==
    /\ last.op = "rotate-role"
    /\ last.err = "cannot_rotate"
    /\ roles[last.name].present
    /\ roles[last.name].credentialType = userCredentialType
    /\ roles[last.name].userID # ""
    /\ client.built

\* ------------------------------------------- failed token creation
MintingOps == {"role/write", "creds/read", "rotate-role"}

\* C32: when the platform fails a token creation during a role write, a
\* creds read or a rotate-role, the operation has made exactly one create
\* call, returns the error, mints nothing, and the stored roles and the
\* tracked leases are as before.
C32_FailedCreateIsNotRetried ==
    [][(last'.op \in MintingOps /\ last'.err = "remote_create")
       => /\ last'.calls = 1
          /\ last'.token = ""
          /\ last'.minted = {}
          /\ tokens' = tokens
          /\ roles' = roles
          /\ leases' = leases]_vars

\* A rotate-role of a stored organization role failed at the remote
\* create: the role still caches the token of its write, which is live.
C32_Witness ==
    /\ last.op = "rotate-role"
    /\ last.err = "remote_create"
    /\ last.calls = 1
    /\ roles[last.name].present
    /\ roles[last.name].credentialType = organizationCredentialType
    /\ roles[last.name].token = TokVal[2]
    /\ ValueLive(tokens, roles[last.name].token)

\* ------------------------------------------------- role update merge
\* The value of a string field after an update: the supplied value, or
\* the stored one when the request leaves the field out.
MergedStr(v, old) == IF v # Absent THEN v ELSE old

MergedInt(v, old) == IF v # AbsentInt THEN v ELSE old

\* A string field as a role read shows it.
ShownStr(v) == IF v # "" THEN v ELSE Absent

\* Role creations of the organization and the user kind, and updates
\* that carry one field or two: a team id, a description, lease periods.
MergeRoleReqs ==
    {RoleReq(Absent, "o1", Absent, Absent, Absent, AbsentInt, AbsentInt),
     RoleReq(Absent, Absent, "u1", Absent, Absent, AbsentInt, MaxTTL),
     RoleReq(Absent, Absent, Absent, "t1", Absent, AbsentInt, AbsentInt),
     RoleReq(Absent, Absent, Absent, Absent, "d1", AbsentInt, AbsentInt),
     RoleReq(Absent, Absent, Absent, Absent, Absent, 1, AbsentInt),
     RoleReq(Absent, Absent, Absent, Absent, Absent, 1, MaxTTL)}

NextRoleMerge ==
    \/ RoleWrite(MergeRoleReqs)
    \/ RoleDelete

SpecRoleMerge == InitRoleList /\ [][NextRoleMerge]_vars

\* C33: a successful role update merges into the stored entry: each of
\* organization, team id, user id, description, ttl and max_ttl that the
\* request leaves out keeps its stored value and each one supplied takes
\* the supplied value, and a role read after the update returns the
\* merged values.
C33_RoleUpdateMerges ==
    [][(last'.op = "role/write" /\ last'.err = "")
       => \A n \in DOMAIN roles, req \in MergeRoleReqs :
             (n = last'.name /\ roles[n].present /\ WriteStepOf(n, req))
                => LET old == roles[n]
                       new == roles'[n]
                       data == pathRolesRead(n)'.data
                   IN
                   /\ new.present
                   /\ new.organization
                          = MergedStr(req.organization, old.organization)
                   /\ new.teamID = MergedStr(req.team_id, old.teamID)
                   /\ new.userID = MergedStr(req.user_id, old.userID)
                   /\ new.description
                          = MergedStr(req.description, old.description)
                   /\ new.ttl = MergedInt(req.ttl, old.ttl)
                   /\ new.maxTTL = MergedInt(req.max_ttl, old.maxTTL)
                   /\ data.present
                   /\ data.organization = ShownStr(new.organization)
                   /\ data.team_id = ShownStr(new.teamID)
                   /\ data.user_id = ShownStr(new.userID)
                   /\ data.description = ShownStr(new.description)
                   /\ data.ttl = new.ttl
                   /\ data.max_ttl = new.maxTTL]_vars

\* A user role created with a max_ttl was updated with a ttl alone and
\* with a description alone: the read shows the user id and all of them.
C33_Witness ==
    /\ last.op = "role/write"
    /\ last.err = ""
    /\ \E n \in DOMAIN roles :
          /\ n = last.name
          /\ roles[n].present
          /\ roles[n].userID = "u1"
          /\ roles[n].maxTTL = MaxTTL
          /\ roles[n].ttl = 1
          /\ roles[n].description = "d1"
          /\ pathRolesRead(n).data.user_id = "u1"
          /\ pathRolesRead(n).data.max_ttl = MaxTTL
          /\ pathRolesRead(n).data.ttl = 1
          /\ pathRolesRead(n).data.description = "d1"

\* ------------------------------------------- cached client and storage
\* C34: between requests a cached client is the client built from the
\* configuration in storage, also after a request that changed the stored
\* configuration and then returned an error.
C34_CachedClientIsOfStoredConfig ==
    client.built => client = ClientOfStoredConfig

\* ------------------------------------------- client of no configuration
\* C35: a caller that builds the client while no configuration is stored
\* builds it from an empty configuration and does not fail for want of a
\* configuration, whatever other callers, resets and deletes did in
\* between; and a build never leaves the cache empty where it found a
\* client.
C35_EmptyConfigurationSubstituted ==
    [][\A c \in Callers :
          (pc[c] = "locked" /\ pc'[c] = "idle")
             => /\ ~config.present
                      => /\ last'.err # "config_nil"
                         /\ client' = newClient(emptyConfig)
                /\ client.built => client'.built]_vars

\* ------------------------------------------------- the lock of getClient
\* The scheduler lets every caller inside getClient take its next step,
\* and a caller that waits for the write lock gets it: the lock does not
\* starve writers.
SpecClientCacheFair ==
    /\ SpecClientCache
    /\ \A c \in Callers :
          /\ WF_vars(getClientCheck(c))
          /\ SF_vars(getClientLock(c))
          /\ WF_vars(getClientBuild(c))

\* A caller holds the read lock exactly between taking it and the check,
\* and the write lock exactly between taking it and the return; writer and
\* readers exclude each other.
LockHeldIffInside ==
    /\ lock.w \in Callers \cup {""}
    /\ lock.r \subseteq Callers
    /\ lock.w # "" => lock.r = {}
    /\ \A c \in Callers :
          /\ c \in lock.r <=> pc[c] = "rlocked"
          /\ lock.w = c <=> pc[c] = "locked"

\* C36: every getClient call gives back, on each return, exactly the lock
\* it holds then and none it does not hold, and with concurrent getClient
\* and reset calls every call that entered getClient returns.
C36_LocksReleasedAndCallsReturn ==
    /\ []LockHeldIffInside
    /\ \A c \in Callers : (pc[c] # "idle") ~> (pc[c] = "idle")

\* One caller holds the write lock while the other two, having found the
\* cache empty, wait for it.
C36_Witness ==
    /\ pc["c1"] = "locked"
    /\ pc["c2"] = "unlocked"
    /\ pc["c3"] = "unlocked"
    /\ lock.w = "c1"
    /\ ~client.built

\* ------------------------------------------- cached singleton tokens
\* C37: the token cached on a stored role of organization or legacy team
\* kind is the live remote token of the role's organization or team.
C37_CachedTokenIsLiveSingleton ==
    \A n \in DOMAIN roles :
        SingletonRole(roles[n])
           => \E k \in DOMAIN tokens :
                 /\ tokens[k].live
                 /\ TokVal[k] = roles[n].token
                 /\ tokens[k].kind = TokenTarget(roles[n]).kind
                 /\ tokens[k].ent = TokenTarget(roles[n]).ent

\* ------------------------------------------- cached token and its id
\* C39: on a stored role of organization or legacy team kind the cached
\* token value and the cached token id are those of one remote token.
C39_CachedTokenAndIDAgree ==
    \A n \in DOMAIN roles :
        SingletonRole(roles[n])
           => \E k \in DOMAIN tokens :
                 TokVal[k] = roles[n].token /\ AtID[k] = roles[n].tokenID

\* ------------------- specification of concurrent role requests
\* Role writes and rotate-role requests on one role, step by step: no
\* handler takes a lock, so the steps of two requests interleave.
RaceRoleReqs ==
    {RoleReq(Absent, "o1", Absent, Absent, Absent, AbsentInt, AbsentInt)}

Finished(c, op, name, err, e) ==
    /\ pc' = [pc EXCEPT ![c] = "idle"]
    /\ inflight' = [inflight EXCEPT ![c] = NoRequest]
    /\ last' = Outcome(op, name, err, "", ManagementToken, {}, {}, 0, 0, e)

\* A role write reads the stored entry, applies the request and validates
\* the outcome; a write that mints nothing stores the entry and returns.
pathRolesWriteLoad(c) ==
    \E name \in DOMAIN roles, req \in RaceRoleReqs :
        LET e == MergeRole(name, req)
            verr == ValidateRole(e, req)
        IN
        /\ pc[c] = "idle"
        /\ IF verr # ""
           THEN /\ Finished(c, "role/write", name, verr, e)
                /\ UNCHANGED roles
           ELSE IF e.credentialType \notin SingletonKinds
           THEN /\ Finished(c, "role/write", name, "", e)
                /\ roles' = setRole(name, e)
           ELSE /\ pc' = [pc EXCEPT ![c] = "read"]
                /\ inflight' = [inflight EXCEPT ![c] =
                                   [op |-> "role/write", name |-> name,
                                    entry |-> e, token |-> "", id |-> ""]]
                /\ UNCHANGED <<roles, last>>
        /\ UNCHANGED <<config, client, leases, tokens, job, lock, builds>>

\* rotate-role reads the stored entry and obtains the client.
pathRotateRoleLoad(c) ==
    \E name \in DOMAIN roles :
        LET e == getRole(name)
            cl == getClient
        IN
        /\ pc[c] = "idle"
        /\ IF ~e.present
           THEN /\ Finished(c, "rotate-role", name, "missing_role_entry",
                            NoRole)
                /\ UNCHANGED client
           ELSE IF ~cl.built
           THEN /\ Finished(c, "rotate-role", name, "client_error", e)
                /\ client' = cl
           ELSE IF e.credentialType \notin RotatableKinds
           THEN /\ Finished(c, "rotate-role", name, "cannot_rotate", e)
                /\ client' = cl
           ELSE /\ pc' = [pc EXCEPT ![c] = "read"]
                /\ inflight' = [inflight EXCEPT ![c] =
                                   [op |-> "rotate-role", name |-> name,
                                    entry |-> e, token |-> "", id |-> ""]]
                /\ client' = cl
                /\ UNCHANGED last
        /\ UNCHANGED <<config, roles, leases, tokens, job, lock, builds>>

\* The request mints the token for the entry it holds.
requestMint(c) ==
    LET q == inflight[c]
        r == IF q.op = "role/write"
             THEN createToken(tokens, q.entry, FALSE)
             ELSE IF q.entry.credentialType = organizationCredentialType
             THEN createOrgToken(tokens, client, q.entry.organization, FALSE)
             ELSE createTeamToken(tokens, client, q.entry.teamID, FALSE)
    IN
    /\ pc[c] = "read"
    /\ client' = r.client
    /\ tokens' = r.tokens
    /\ IF r.err # ""
       THEN Finished(c, q.op, q.name, r.err, q.entry)
       ELSE /\ pc' = [pc EXCEPT ![c] = "minted"]
            /\ inflight' = [inflight EXCEPT ![c].token = r.token,
                                            ![c].id = r.id]
            /\ UNCHANGED last
    /\ UNCHANGED <<config, roles, leases, job, lock, builds>>

\* The request stores the entry it holds with the token it minted (the
\* role write with the token's id as well) and returns.
requestStore(c) ==
    LET q == inflight[c]
        e == IF q.op = "role/write"
             THEN [q.entry EXCEPT !.token = q.token, !.tokenID = q.id]
             ELSE [q.entry EXCEPT !.token = q.token]
    IN
    /\ pc[c] = "minted"
    /\ roles' = setRole(q.name, e)
    /\ Finished(c, q.op, q.name, "", q.entry)
    /\ UNCHANGED <<config, client, leases, tokens, job, lock, builds>>

InitRoleRace ==
    /\ tokens = <<[kind |-> userCredentialType, ent |-> "u1", live |-> TRUE]>>
    /\ config = RoleSideConfig
    /\ job = FALSE
    /\ client = NoClient
    /\ roles = NoRoles
    /\ leases = <<>>
    /\ last = InitOutcome
    /\ NoCallers

NextRoleRace ==
    \E c \in Callers :
        \/ pathRolesWriteLoad(c)
        \/ pathRotateRoleLoad(c)
        \/ requestMint(c)
        \/ requestStore(c)

SpecRoleRace == InitRoleRace /\ [][NextRoleRace]_vars

\* C38: when the role requests that ran have returned, the token stored
\* on a role of organization or legacy team kind is the token the
\* platform minted last, which is the live one.
C38_LastMintIsStored ==
    (\A c \in Callers : pc[c] = "idle")
       => \A n \in DOMAIN roles :
             SingletonRole(roles[n])
                => /\ roles[n].token = TokVal[Len(tokens)]
                   /\ ValueLive(tokens, roles[n].token)

\* ------------------------ specification of dynamic team issuance
\* Creds reads of a dynamic-team role whose team options name a workspace,
\* so that each read can also fail after its team was created.
CredsReadWithWorkspaces ==
    \E name \in DOMAIN roles, fp \in 0..2 :
        /\ getRole(name).present
        /\ IsDynamicTeamRole(getRole(name))
        /\ Len(leases) < MaxLeases
        /\ RoleStep("creds/read", name, pathCredentialsRead(name, fp))

\* Two dynamic-team roles are stored.
InitDynamicTeam ==
    /\ tokens = <<[kind |-> userCredentialType, ent |-> "u1", live |-> TRUE]>>
    /\ config = RoleSideConfig
    /\ job = FALSE
    /\ client = NoClient
    /\ roles = [n \in ListRoleNames |-> DynamicTeamRole(n)]
    /\ leases = <<>>
    /\ last = InitOutcome
    /\ NoCallers

NextDynamicTeam ==
    \/ CredsReadWithWorkspaces
    \/ Revoke
    \/ Renew
    \/ RoleDelete

SpecDynamicTeam == InitDynamicTeam /\ [][NextDynamicTeam]_vars

\* The teams that exist on the platform.
LiveTeams(ts) ==
    {ts[n].ent : n \in {k \in DOMAIN ts :
                           ts[k].kind = DynamicTeamTokenType /\ ts[k].live}}

\* C40: a creds read of a dynamic-team role either succeeds and its lease
\* carries the id of the team it created, or fails and leaves no team on
\* the platform that was not there before.
C40_FailedTeamCreationLeavesNothing ==
    [][(/\ last'.op = "creds/read"
        /\ roles[last'.name].present
        /\ IsDynamicTeamRole(roles[last'.name]))
       => IF last'.err = ""
          THEN /\ last'.lease \in DOMAIN leases'
               /\ LiveTeams(tokens') \ LiveTeams(tokens)
                      = {leases'[last'.lease].team_id}
          ELSE LiveTeams(tokens') \subseteq LiveTeams(tokens)]_vars

====
